---- MODULE Spec2Model ----
(***************************************************************************)
(* Funding-rate arbitrage engine: order manager, strategy executor, risk   *)
(* manager and exchange reconciliation, modelled from src/core/*.py and    *)
(* src/database/db_manager.py.                                             *)
(*                                                                         *)
(* Units.  Money is an integer number of USDT.  An order amount is an      *)
(* integer number of 1/AmountScale coins, so that position_size / price    *)
(* stays an integer.  Fees are integers in 1/10000 USDT.  Percentages     *)
(* are compared by cross-multiplication with PctScale.                     *)
(***************************************************************************)
EXTENDS Integers, Sequences, FiniteSets, TLC

\* ------------------------------------------------------------------ bounds
MaxPositions == 1          \* rows the positions table may hold in a run

\* ------------------------------------------------------- program constants
Retry == 3                 \* create_order(retry=3)
AmountScale == 100
PctScale == 1000
TakerFeeEstimate == 5      \* 0.0005 of filled * price, in 1/10000
MinOrderValue == 5         \* _execute_directional_strategy: 5 USDT minimum
WarningThreshold == 5      \* risk.warning_threshold   0.005, in 1/PctScale
CriticalThreshold == 10    \* risk.critical_threshold  0.010
EmergencyThreshold == 15   \* risk.emergency_threshold 0.015
StopLossPct == 50          \* strategy3.stop_loss_pct  0.05
TrailingActivationPct == 40  \* s3_trailing_activation_pct 0.04
TrailingCallbackPct == 40    \* s3_trailing_callback_pct 0.04
TrailingStopEnabled == TRUE  \* s3_trailing_stop_enabled
S1MinFundingDiff == 50     \* strategy1.min_funding_diff  0.0005
S1PositionSize == 10000    \* strategy1.position_size  (USDT)
MaxPriceDiff == 2000       \* strategy1.max_price_diff  0.02
S2AMinFundingRate == 5000  \* strategy2a.min_funding_rate  0.05
S2AMaxBasisDeviation == 1000   \* strategy2a.max_basis_deviation  0.01
S2APositionSize == 10000   \* strategy2a.position_size  (USDT)
S2BMinBasis == 2000        \* strategy2b.min_basis  0.02
S2BPositionSize == 8000    \* strategy2b.position_size  (USDT)
EstimatedHoldPeriods == 3  \* funding periods a basis trade is held
S3MinFundingRate == 10           \* strategy3.min_funding_rate 0.0001
S3PositionSize == 10             \* s3_position_size default, USDT
HoldingDays == 7                 \* holding_days of the directional estimate
TimesPerDay == 3                 \* 24 / funding_frequency_hours (8)
HalfHour == 1              \* hours_held > 0.5; the clock counts half hours
WriteThreshold == 1000     \* 0.0001 USDT; rates count in 1/10^7

\* -------------------------------------------------------------- data sets
S1 == "funding_rate_cross_exchange"
S2A == "funding_rate_spot_futures"
S2B == "basis_arbitrage"
S3 == "directional_funding"

Adapters == {"binance", "okx"}          \* keys of OrderManager.exchanges
NoOrder == [none |-> TRUE]              \* Python None returned for an order

\* The keyword parameters that OrderManager.create_order declares.
CreateOrderParams ==
    {"exchange", "symbol", "side", "amount", "order_type", "price",
     "is_futures", "strategy_id", "strategy_type", "retry", "check_depth"}

VARIABLES
    enable_trading,   \* OrderManager.enable_trading (ENABLE_TRADING env)
    schema,           \* columns of the database file the process opened
    positions,        \* rows of the positions table, index = id
    orderLog,         \* create_order calls made by the last operation
    events,           \* callbacks fired by the last operation
    lastOp,           \* the last operation and what it returned
    config,           \* the configuration values the operator can change
    pending_opportunities,  \* StrategyExecutor.pending_opportunities
    paused,           \* StrategyExecutor.paused
    loop_pc,          \* where the admission loop thread stands
    scan,             \* the risk manager's scan in progress
    inflight,         \* the execution between its INSERT and its orders
    funding_rates,    \* rows of the funding_rates table
    now,              \* the clock, in hours
    orderbook,        \* the order book a venue returns (top 20 levels)
    market_data,      \* DataCollector.market_data[symbol], venues in insertion order
    opportunities,    \* OpportunityMonitor.opportunities
    config_table,     \* rows of the config table: the stored text of each key
    config_cache,     \* ConfigManager._config_cache
    collector,        \* DataCollector.exchanges and the collection loop's iteration
    executing,        \* each caller's execute_opportunity call in progress
    market_prices,    \* the venue data _load_market_data_from_db builds from rows of the last minute
    db_call,          \* the database operation in progress: get_connection's generator and its caller
    components,       \* each component's run flag and whether main has called its start() and stop()
    loops             \* where each component's loop thread stands

setup == <<enable_trading, schema, config, config_table, config_cache>>
admission == <<pending_opportunities, paused, loop_pc>>
market == <<funding_rates, now, orderbook, market_data, opportunities, collector, market_prices>>
requests == <<executing, db_call>>
lifecycle == <<components, loops>>
threads == <<scan, inflight, requests, lifecycle>>
vars == <<enable_trading, schema, positions, orderLog, events, lastOp, config, pending_opportunities, paused, loop_pc, scan, inflight, funding_rates, now, orderbook, market_data, opportunities, config_table, config_cache, collector, executing, market_prices, db_call, components, loops>>

\* ------------------------------------------------------------ environment
\* What a venue does with one create_order call: whether the book is deep
\* enough, how many leading attempts the adapter answers with None, what fee
\* data the accepted order carries and how the fill polling ends.
FeeShapes == {"reported", "estimated", "none"}
FillOutcomes == {"closed", "canceled", "expired", "timeout", "not_found"}
ReportedFee == 12          \* fee.cost carried by a venue reply
VenuePrice == 100          \* 'average' carried by a venue reply

LegEnvs ==
    {e \in [depth : BOOLEAN, rejects : {0, 1, Retry},
            fee : FeeShapes, fill : FillOutcomes] :
        /\ (~e.depth) => (e.rejects = 0 /\ e.fee = "none" /\ e.fill = "closed")
        /\ (e.rejects = Retry) => (e.fee = "none" /\ e.fill = "closed")
        /\ (e.rejects = 1) => (e.fee = "none" /\ e.fill = "closed")
        /\ (e.fill # "closed") => (e.fee = "none")}

\* A database created by init_database has no orders.fee_cost/fee_currency
\* and no positions.exit_details/updated_at/entry_price ("init_database");
\* CREATE TABLE IF NOT EXISTS keeps an older file whose tables carry them:
\* both tables ("extended"), or the orders table alone ("orders_extended").
Schemas == {"init_database", "orders_extended", "extended"}
OrdersHasFeeColumns == schema \in {"orders_extended", "extended"}
PositionsHasSyncColumns == schema = "extended"

\* ----------------------------------------------------------- order manager
Args(exchange, symbol, side, amount, is_futures, strategy_id, strategy_type, check_depth) ==
    [exchange |-> exchange, symbol |-> symbol, side |-> side,
     amount |-> amount, order_type |-> "market", is_futures |-> is_futures,
     strategy_id |-> strategy_id, strategy_type |-> strategy_type,
     check_depth |-> check_depth]

Result(order, attempts, submits, accepted, row, fill) ==
    [order |-> order, attempts |-> attempts, submits |-> submits,
     accepted |-> accepted, row |-> row, fill |-> fill]

\* _check_order_book_depth: no adapter, or less than 80% of the amount on
\* the opposite side of the book, is "insufficient".
CheckOrderBookDepth(a, e) ==
    IF a.exchange \notin Adapters THEN FALSE ELSE e.depth

\* _wait_for_order_filled
WaitForOrderFilled(a, e) ==
    IF ~enable_trading THEN [filled |-> TRUE, status |-> "closed"]
    ELSE IF a.exchange \notin Adapters
         THEN [filled |-> FALSE, status |-> "unknown"]
    ELSE IF e.fill = "closed" THEN [filled |-> TRUE, status |-> "closed"]
    ELSE IF e.fill \in {"canceled", "expired"}
         THEN [filled |-> FALSE, status |-> e.fill]
    ELSE IF e.fill = "not_found" THEN [filled |-> TRUE, status |-> "closed"]
    ELSE [filled |-> FALSE, status |-> "timeout"]

\* The order synthesised in simulation: price = price or 0, no fee, no average.
SimOrder(a) ==
    [id |-> "SIM_", status |-> "closed", filled |-> a.amount,
     amount |-> a.amount, price |-> 0, average |-> 0, fee |-> -1]

\* The order a venue returns for an accepted market order.
VenueOrder(a, e) ==
    [id |-> "venue", status |-> "open",
     filled |-> IF e.fee = "none" THEN 0 ELSE a.amount,
     amount |-> a.amount, price |-> 0,
     average |-> IF e.fee = "none" THEN 0 ELSE VenuePrice,
     fee |-> IF e.fee = "reported" THEN ReportedFee ELSE -1]

\* Fee extraction: the venue's fee.cost, else filled * price * 0.0005.
FeeCost(od) ==
    IF od.fee >= 0 THEN od.fee
    ELSE LET avg_price == IF od.average # 0 THEN od.average ELSE od.price
         IN IF od.filled > 0 /\ avg_price > 0
            THEN (od.filled * avg_price * TakerFeeEstimate) \div AmountScale
            ELSE 0

OrderRow(a, od, fee_cost, status) ==
    [strategy_id |-> a.strategy_id, strategy_type |-> a.strategy_type,
     exchange |-> a.exchange, side |-> a.side, amount |-> od.amount,
     filled |-> od.filled, status |-> status, order_id |-> od.id,
     fee_cost |-> fee_cost]

RECURSIVE Attempts(_, _, _, _, _)
RECURSIVE Persist(_, _, _, _, _, _)

\* The body of one iteration of "for attempt in range(retry)".
Attempts(a, e, attempt, submits, accepted) ==
    IF attempt >= Retry
    THEN Result(NoOrder, attempt, submits, accepted, NoOrder, "none")
    ELSE IF ~enable_trading
    THEN Persist(a, e, SimOrder(a), attempt, submits, accepted)
    ELSE IF a.exchange \notin Adapters
    THEN Result(NoOrder, attempt + 1, submits, accepted, NoOrder, "none")
    ELSE IF a.order_type \notin {"market", "limit"}
    THEN Result(NoOrder, attempt + 1, submits, accepted, NoOrder, "none")
    ELSE IF attempt < e.rejects
    THEN IF attempt < Retry - 1
         THEN Attempts(a, e, attempt + 1, submits + 1, accepted)
         ELSE Result(NoOrder, attempt + 1, submits + 1, accepted, NoOrder,
                     "none")
    ELSE Persist(a, e, VenueOrder(a, e), attempt, submits + 1, accepted + 1)

\* A loop body that goes on to the next attempt after the order row has been
\* written, where the code returns order_data.
PersistWithoutReturn(a, e, od, attempt, submits, accepted) ==
    IF attempt < Retry - 1
    THEN Attempts(a, e, attempt + 1, submits, accepted)
    ELSE Result([od EXCEPT !.fee = FeeCost(od)], attempt + 1, submits, accepted, OrderRow(a, od, FeeCost(od), od.status), "closed")

\* Fee extraction, INSERT INTO orders, fill polling, return.
Persist(a, e, od, attempt, submits, accepted) ==
    IF ~OrdersHasFeeColumns
    THEN \* the INSERT raises; the except clause retries or gives up
         IF attempt < Retry - 1
         THEN Attempts(a, e, attempt + 1, submits, accepted)
         ELSE Result(NoOrder, attempt + 1, submits, accepted, NoOrder, "none")
    ELSE LET fee_cost == FeeCost(od)
             polled == enable_trading /\ a.order_type = "market"
             fs == WaitForOrderFilled(a, e)
             status == IF polled /\ ~fs.filled
                          /\ fs.status \in {"canceled", "expired"}
                       THEN fs.status ELSE od.status
         IN Result([od EXCEPT !.fee = fee_cost], attempt + 1, submits,
                   accepted, OrderRow(a, od, fee_cost, status),
                   IF polled THEN fs.status ELSE "closed")

\* OrderManager.create_order
CreateOrder(a, e) ==
    IF enable_trading /\ a.check_depth /\ a.strategy_type # "rollback"
       /\ ~CheckOrderBookDepth(a, e)
    THEN Result(NoOrder, 0, 0, 0, NoOrder, "none")
    ELSE Attempts(a, e, 0, 0, 0)

Call(a, e) == [args |-> a, env |-> e, res |-> CreateOrder(a, e)]
Placed(c) == c.res.order # NoOrder

ReverseSide(side) == IF side = "buy" THEN "sell" ELSE "buy"

\* A rollback that repeats the side of the order it undoes.
RollbackOrderSameSide(exchange, symbol, side, amount, is_futures, e) ==
    Call(Args(exchange, symbol, side, amount, is_futures, 0, "rollback",
              FALSE), e)

\* OrderManager._rollback_order
RollbackOrder(exchange, symbol, side, amount, is_futures, e) ==
    Call(Args(exchange, symbol, ReverseSide(side), amount, is_futures, 0,
              "rollback", FALSE), e)

\* Fee read back from the orders table for a placed order.
FeeOf(c) == IF c.res.row # NoOrder THEN c.res.row.fee_cost ELSE 0

\* What a pair creation returns, and the requests it made, given the
\* outcome cA of leg A, cB of leg B (requested only when cA is placed) and cR
\* of the rollback (requested only when cB is not placed).
PairResult(cA, cB, cR) ==
    IF ~Placed(cA)
    THEN [success |-> FALSE, total_fee |-> 0, calls |-> <<cA>>]
    ELSE IF ~Placed(cB)
    THEN [success |-> FALSE, total_fee |-> 0, calls |-> <<cA, cB, cR>>]
    ELSE [success |-> TRUE, total_fee |-> FeeOf(cA) + FeeOf(cB),
          calls |-> <<cA, cB>>]

\* The common body of create_spot_futures_pair / create_cross_exchange_pair:
\* leg A, then leg B, a rollback of leg A when leg B fails.
CreatePair(aA, aB, eA, eB, eR) ==
    PairResult(Call(aA, eA), Call(aB, eB),
               RollbackOrder(aA.exchange, aA.symbol, aA.side, aA.amount,
                             aA.is_futures, eR))

\* OrderManager.create_spot_futures_pair: buy spot, then sell futures.
CreateSpotFuturesPair(exchange, symbol, amount, strategy_id, strategy_type, eA, eB, eR) ==
    CreatePair(
        Args(exchange, symbol, "buy", amount, FALSE, strategy_id,
             strategy_type, TRUE),
        Args(exchange, symbol, "sell", amount, TRUE, strategy_id,
             strategy_type, TRUE),
        eA, eB, eR)

\* OrderManager.create_cross_exchange_pair: long futures, then short futures.
CreateCrossExchangePair(long_exchange, short_exchange, symbol, amount, strategy_id, strategy_type, eA, eB, eR) ==
    CreatePair(
        Args(long_exchange, symbol, "buy", amount, TRUE, strategy_id,
             strategy_type, TRUE),
        Args(short_exchange, symbol, "sell", amount, TRUE, strategy_id,
             strategy_type, TRUE),
        eA, eB, eR)

\* What a pair close returns, and the requests it made, given the outcome
\* cA of leg A and cB of leg B (requested only when cA is placed).
ClosePairResult(cA, cB) ==
    IF ~Placed(cA) THEN [success |-> FALSE, calls |-> <<cA>>]
    ELSE IF ~Placed(cB) THEN [success |-> FALSE, calls |-> <<cA, cB>>]
    ELSE [success |-> TRUE, calls |-> <<cA, cB>>]

\* A closing pair that undoes leg A when leg B fails.
ClosePairWithRollback(aA, aB, eA, eB) ==
    PairResult(Call(aA, eA), Call(aB, eB),
               RollbackOrder(aA.exchange, aA.symbol, aA.side, aA.amount,
                             aA.is_futures, eB))

\* The common body of close_spot_futures_pair / close_cross_exchange_pair:
\* leg A, then leg B, no rollback.
ClosePair(aA, aB, eA, eB) == ClosePairResult(Call(aA, eA), Call(aB, eB))

\* OrderManager.close_spot_futures_pair: sell spot, then buy futures.
CloseSpotFuturesPair(exchange, symbol, amount, strategy_id, eA, eB) ==
    ClosePair(
        Args(exchange, symbol, "sell", amount, FALSE, strategy_id,
             "close_position", TRUE),
        Args(exchange, symbol, "buy", amount, TRUE, strategy_id,
             "close_position", TRUE),
        eA, eB)

\* OrderManager.close_cross_exchange_pair: sell the long, then buy the short.
CloseCrossExchangePair(long_exchange, short_exchange, symbol, amount, strategy_id, eA, eB) ==
    ClosePair(
        Args(long_exchange, symbol, "sell", amount, TRUE, strategy_id,
             "close_position", TRUE),
        Args(short_exchange, symbol, "buy", amount, TRUE, strategy_id,
             "close_position", TRUE),
        eA, eB)

\* ------------------------------------------------------------ risk manager
TotalCapital == 100000           \* global.total_capital
MaxCapitalUsageTenths == 8       \* global.max_capital_usage 0.8
MaxDrawdown == 100               \* risk.max_drawdown 0.10, in 1/PctScale
MaxPositionSizePerTrade == 1000  \* risk.max_position_size_per_trade default
GlobalMaxPositions == 10         \* global.max_positions
PairMaxPositions == 3            \* pair config max_positions
PriceDeviationThreshold == 20    \* risk.price_deviation_threshold 0.02
DynamicPositionEnabled == TRUE   \* risk.dynamic_position_enabled
HighScoreMultiplierTenths == 15  \* risk.high_score_multiplier 1.5
MediumScoreMultiplierTenths == 10
LowScoreMultiplierTenths == 5

\* The configuration as ConfigManager ships it.
\* pair: the execution modes of the row get_pair_config returns.
DefaultConfig ==
    [total_capital |-> TotalCapital, max_positions |-> GlobalMaxPositions,
     pair_max_positions |-> PairMaxPositions,
     s2a_min_funding_rate |-> S2AMinFundingRate,
     pair |-> [s1_execution_mode |-> "auto", s2a_execution_mode |-> "auto",
               s2b_execution_mode |-> "manual"]]

Min(a, b) == IF a < b THEN a ELSE b

OpenIds == {i \in 1..Len(positions) : positions[i].status = "open"}

RECURSIVE SumOver(_, _)
SumOver(f, ids) ==
    IF ids = {} THEN 0
    ELSE LET i == CHOOSE j \in ids : TRUE IN f[i] + SumOver(f, ids \ {i})

SumOpenPnl == SumOver([i \in 1..Len(positions) |-> positions[i].current_pnl],
                      OpenIds)
SumOpenSize == SumOver([i \in 1..Len(positions) |-> positions[i].position_size],
                       OpenIds)

Verdict(passed, reason, size) ==
    [passed |-> passed, reason |-> reason, adjusted_position_size |-> size]

\* check_pre_trade_risk after the drawdown check: the per-trade clamp, the
\* capital check, the position counts, the price deviation, dynamic sizing.
RiskChecksAfterDrawdown(opp) ==
    LET position_size == opp.position_size
        available_capital ==
            (config.total_capital * MaxCapitalUsageTenths) \div 10
                - SumOpenSize
        pair_count == Cardinality({i \in OpenIds :
                                      positions[i].symbol = opp.symbol})
        mult == IF opp.score > 85 THEN HighScoreMultiplierTenths
                ELSE IF opp.score > 60 THEN MediumScoreMultiplierTenths
                ELSE LowScoreMultiplierTenths
        adjusted_size == Min((position_size * mult) \div 10, available_capital)
    IN IF position_size > MaxPositionSizePerTrade
       THEN Verdict(TRUE, "per_trade_clamp", MaxPositionSizePerTrade)
       ELSE IF position_size > available_capital
       THEN IF available_capital > 0
            THEN Verdict(TRUE, "capital_reduced", available_capital)
            ELSE Verdict(FALSE, "no_capital", 0)
       ELSE IF Cardinality(OpenIds) >= config.max_positions
       THEN Verdict(FALSE, "max_positions", position_size)
       ELSE IF pair_count >= config.pair_max_positions
       THEN Verdict(FALSE, "pair_max_positions", position_size)
       ELSE IF opp.type = S1 /\ opp.price_diff_pct > PriceDeviationThreshold
       THEN Verdict(FALSE, "price_deviation", position_size)
       ELSE IF DynamicPositionEnabled /\ adjusted_size # position_size
       THEN Verdict(TRUE, "dynamic", adjusted_size)
       ELSE Verdict(TRUE, "ok", position_size)

\* A risk check that does not look at the drawdown.
CheckPreTradeRiskWithoutDrawdown(opp) == RiskChecksAfterDrawdown(opp)

\* RiskManager.check_pre_trade_risk
CheckPreTradeRisk(opp) ==
    IF config.total_capital > 0
       /\ SumOpenPnl * PctScale < -MaxDrawdown * config.total_capital
    THEN Verdict(FALSE, "drawdown", opp.position_size)
    ELSE RiskChecksAfterDrawdown(opp)

\* A level whose thresholds are reached by a loss equal to them.
RiskLevelInclusive(p) ==
    IF p.position_size > 0
       /\ p.current_pnl * PctScale <= -EmergencyThreshold * p.position_size
    THEN "emergency"
    ELSE IF p.position_size > 0
       /\ p.current_pnl * PctScale <= -CriticalThreshold * p.position_size
    THEN "critical"
    ELSE IF p.position_size > 0
       /\ p.current_pnl * PctScale <= -WarningThreshold * p.position_size
    THEN "warning"
    ELSE "none"

\* The level of the risk event _check_position_risk raises for a position.
RiskLevel(p) ==
    IF p.position_size > 0
       /\ p.current_pnl * PctScale < -EmergencyThreshold * p.position_size
    THEN "emergency"
    ELSE IF p.position_size > 0
       /\ p.current_pnl * PctScale < -CriticalThreshold * p.position_size
    THEN "critical"
    ELSE IF p.position_size > 0
       /\ p.current_pnl * PctScale < -WarningThreshold * p.position_size
    THEN "warning"
    ELSE "none"

\* --------------------------------------------------------- opportunities
Opp(type, exchange, long_exchange, short_exchange, direction, size, price, score, price_diff_pct) ==
    [type |-> type, symbol |-> "BTC/USDT", exchange |-> exchange,
     long_exchange |-> long_exchange, short_exchange |-> short_exchange,
     direction |-> direction, position_size |-> size, price |-> price,
     score |-> score, price_diff_pct |-> price_diff_pct]

\* The opportunities handed to execute_opportunity (admission loop or
\* operator request).  price is long_entry_price / spot_price / entry_price.
Opportunities ==
    {Opp(S1, "", "binance", "okx", "", 10000, 100, 70, 10),
     Opp(S1, "", "binance", "okx", "", 200, 100, 70, 30),
     Opp(S2A, "binance", "", "", "", 200, 50, 90, 0),
     Opp(S2B, "binance", "", "", "", 200, 100, 70, 0),
     Opp(S3, "binance", "", "", "short", 200, 100, 70, 0),
     Opp(S3, "binance", "", "", "short", 4, 100, 70, 0)}

\* ------------------------------------------------------ strategy executor
NewPosition(opp, size) ==
    [strategy_type |-> opp.type, symbol |-> opp.symbol,
     exchange |-> opp.exchange, long_exchange |-> opp.long_exchange,
     short_exchange |-> opp.short_exchange, direction |-> opp.direction,
     price |-> opp.price, position_size |-> size, current_pnl |-> 0,
     fees_paid |-> 0, status |-> "open", close_time |-> FALSE,
     entry_price |-> 0, trailing_stop_activated |-> FALSE, best_price |-> 0,
     open_time |-> now, funding_collected |-> 0]

\* A callback: its type, the position it names and, for execution_failed,
\* the reason it carries.
Event(type, pid) == [type |-> type, pid |-> pid, reason |-> ""]
NoInput == [none |-> TRUE]
\* close_calls: the ids close_position was invoked for; total_fee: the fee a
\* pair operation of the order manager returned; input: the argument of the
\* operation (the opportunity, the market data of a tick).
Outcome(op, pid, success) ==
    [op |-> op, pid |-> pid, success |-> success, total_fee |-> 0,
     close_calls |-> <<>>, input |-> NoInput, risk_check |-> NoInput]

\* What one execute_opportunity call leaves behind.
Exec(rows, calls, evs, success, pid) ==
    [positions |-> rows, calls |-> calls, events |-> evs,
     success |-> success, pid |-> pid]

AmountOf(size, price) == (size * AmountScale) \div price

\* _execute_cross_exchange_funding after the row (id pid) is inserted and
\* the order manager returned orders.
CrossExchangeFundingResult(rows, pid, orders) ==
    IF ~orders.success
    THEN Exec([rows EXCEPT ![pid].status = "failed"], orders.calls, <<>>,
              FALSE, pid)
    ELSE IF orders.total_fee > 0
    THEN \* fees stored, then "return {'success': False, ...}"
         Exec([rows EXCEPT ![pid].fees_paid = orders.total_fee],
              orders.calls, <<>>, FALSE, pid)
    ELSE Exec(rows, orders.calls, <<Event("position_opened", pid)>>, TRUE,
              pid)

\* StrategyExecutor._execute_cross_exchange_funding
ExecuteCrossExchangeFunding(opp, size, eA, eB, eR) ==
    CrossExchangeFundingResult(
        Append(positions, NewPosition(opp, size)), Len(positions) + 1,
        CreateCrossExchangePair(opp.long_exchange, opp.short_exchange,
            opp.symbol, AmountOf(size, opp.price), Len(positions) + 1, S1,
            eA, eB, eR))

\* _execute_spot_futures_funding after the row is inserted and the order
\* manager returned orders.
SpotFuturesFundingResult(rows, pid, orders) ==
    IF ~orders.success
    THEN Exec([rows EXCEPT ![pid].status = "failed"], orders.calls, <<>>,
              FALSE, pid)
    ELSE Exec(IF orders.total_fee > 0
              THEN [rows EXCEPT ![pid].fees_paid = orders.total_fee]
              ELSE rows,
              orders.calls, <<Event("position_opened", pid)>>, TRUE, pid)

\* StrategyExecutor._execute_spot_futures_funding
ExecuteSpotFuturesFunding(opp, size, eA, eB, eR) ==
    SpotFuturesFundingResult(
        Append(positions, NewPosition(opp, size)), Len(positions) + 1,
        CreateSpotFuturesPair(opp.exchange, opp.symbol,
            AmountOf(size, opp.price), Len(positions) + 1, S2A, eA, eB, eR))

\* _execute_basis_arbitrage after the row is inserted and the order manager
\* returned orders.
BasisArbitrageResult(rows, pid, orders) ==
    IF ~orders.success
    THEN Exec([rows EXCEPT ![pid].status = "failed"], orders.calls, <<>>,
              FALSE, pid)
    ELSE Exec(rows, orders.calls, <<Event("position_opened", pid)>>, TRUE,
              pid)

\* A basis-arbitrage execution that leaves the row open when the orders fail.
ExecuteBasisArbitrageStaysOpen(opp, size, eA, eB, eR) ==
    LET r == BasisArbitrageResult(
                 Append(positions, NewPosition(opp, size)),
                 Len(positions) + 1,
                 CreateSpotFuturesPair(opp.exchange, opp.symbol,
                     AmountOf(size, opp.price), Len(positions) + 1, S2B,
                     eA, eB, eR))
    IN IF r.success THEN r
       ELSE [r EXCEPT !.positions = Append(positions, NewPosition(opp, size))]

\* StrategyExecutor._execute_basis_arbitrage
ExecuteBasisArbitrage(opp, size, eA, eB, eR) ==
    BasisArbitrageResult(
        Append(positions, NewPosition(opp, size)), Len(positions) + 1,
        CreateSpotFuturesPair(opp.exchange, opp.symbol,
            AmountOf(size, opp.price), Len(positions) + 1, S2B, eA, eB, eR))

\* _execute_directional_strategy after the row is inserted and create_order
\* returned order.
DirectionalResult(rows, pid, order) ==
    IF ~Placed(order)
    THEN Exec([rows EXCEPT ![pid].status = "failed"], <<order>>, <<>>, FALSE,
              pid)
    ELSE Exec(rows, <<order>>, <<Event("position_opened", pid)>>, TRUE, pid)

\* The amount of a directional order: raised to 5 USDT worth when smaller.
DirectionalAmount(size, price) ==
    IF (AmountOf(size, price) * price) \div AmountScale < MinOrderValue
    THEN AmountOf(MinOrderValue, price)
    ELSE AmountOf(size, price)

\* StrategyExecutor._execute_directional_strategy
ExecuteDirectionalStrategy(opp, size, eA) ==
    IF size < MinOrderValue
    THEN Exec(positions, <<>>, <<>>, FALSE, 0)
    ELSE DirectionalResult(
             Append(positions, NewPosition(opp, size)), Len(positions) + 1,
             Call(Args(opp.exchange, opp.symbol,
                       IF opp.direction = "short" THEN "sell" ELSE "buy",
                       DirectionalAmount(size, opp.price), TRUE,
                       Len(positions) + 1, S3, TRUE), eA))

\* An execute_opportunity that goes on with the strategy although the risk
\* check rejected.
DispatchDespiteReject(opp, risk_check, eA, eB, eR) ==
    IF opp.type = S1
    THEN ExecuteCrossExchangeFunding(opp, risk_check.adjusted_position_size,
                                     eA, eB, eR)
    ELSE IF opp.type = S2A
    THEN ExecuteSpotFuturesFunding(opp, risk_check.adjusted_position_size,
                                   eA, eB, eR)
    ELSE IF opp.type = S2B
    THEN ExecuteBasisArbitrage(opp, risk_check.adjusted_position_size,
                               eA, eB, eR)
    ELSE ExecuteDirectionalStrategy(opp, risk_check.adjusted_position_size, eA)

\* execute_opportunity once check_pre_trade_risk returned risk_check.
Dispatch(opp, risk_check, eA, eB, eR) ==
    IF ~risk_check.passed
    THEN Exec(positions, <<>>,
              <<[Event("execution_failed", 0)
                    EXCEPT !.reason = risk_check.reason]>>, FALSE, 0)
    ELSE IF opp.type = S1
    THEN ExecuteCrossExchangeFunding(opp, risk_check.adjusted_position_size,
                                     eA, eB, eR)
    ELSE IF opp.type = S2A
    THEN ExecuteSpotFuturesFunding(opp, risk_check.adjusted_position_size,
                                   eA, eB, eR)
    ELSE IF opp.type = S2B
    THEN ExecuteBasisArbitrage(opp, risk_check.adjusted_position_size,
                               eA, eB, eR)
    ELSE ExecuteDirectionalStrategy(opp, risk_check.adjusted_position_size, eA)

\* StrategyExecutor.execute_opportunity
ExecuteOpportunityResult(opp, eA, eB, eR) ==
    Dispatch(opp, CheckPreTradeRisk(opp), eA, eB, eR)

\* The keywords close_position passes to create_order for a directional
\* position.
DirectionalCloseKeywords ==
    {"exchange", "symbol", "side", "amount", "order_type", "is_futures",
     "strategy_id", "strategy_type", "reduce_only"}

Closed(rows, calls, evs, ret) ==
    [positions |-> rows, calls |-> calls, events |-> evs, ret |-> ret]

\* The closing request of a directional position, as a pair-like result.
SingleOrder(order) == [success |-> Placed(order), calls |-> <<order>>]

\* The closing orders close_position asks the order manager for.
ClosingOrders(position, position_id, eA, eB) ==
    IF position.strategy_type = S1
    THEN CloseCrossExchangePair(position.long_exchange,
             position.short_exchange, position.symbol,
             AmountOf(position.position_size, position.price), position_id,
             eA, eB)
    ELSE IF position.strategy_type \in {S2A, S2B}
    THEN CloseSpotFuturesPair(position.exchange, position.symbol,
             AmountOf(position.position_size, position.price), position_id,
             eA, eB)
    ELSE SingleOrder(Call(Args(position.exchange, position.symbol,
                               IF position.direction = "short" THEN "buy"
                               ELSE "sell",
                               AmountOf(position.position_size,
                                        position.price),
                               TRUE, position_id, "close_position", TRUE),
                          eA))

\* close_position once the order manager returned orders.
CloseResult(rows, position_id, orders) ==
    IF ~orders.success
    THEN Closed(rows, orders.calls, <<>>, FALSE)
    ELSE Closed([rows EXCEPT ![position_id].status = "closed",
                             ![position_id].close_time = TRUE],
                orders.calls, <<Event("position_closed", position_id)>>, TRUE)

\* StrategyExecutor.close_position, on the rows given.  A missing row, a zero
\* entry price (ZeroDivisionError) and an undeclared keyword (TypeError) all
\* end in "return False" before any order is requested.
ClosePositionOn(rows, position_id, eA, eB) ==
    IF position_id \notin 1..Len(rows)
    THEN Closed(rows, <<>>, <<>>, FALSE)
    ELSE IF rows[position_id].price <= 0
    THEN Closed(rows, <<>>, <<>>, FALSE)
    ELSE IF rows[position_id].strategy_type = S3
            /\ ~(DirectionalCloseKeywords \subseteq CreateOrderParams)
    THEN Closed(rows, <<>>, <<>>, FALSE)
    ELSE CloseResult(rows, position_id,
                     ClosingOrders(rows[position_id], position_id, eA, eB))

\* StrategyExecutor.get_open_positions: ids, newest first.
RECURSIVE Descending(_)
Descending(n) == IF n = 0 THEN <<>> ELSE <<n>> \o Descending(n - 1)

GetOpenPositions(rows) ==
    SelectSeq(Descending(Len(rows)), LAMBDA i : rows[i].status = "open")

\* The monitor's running state after a close_position call that returned
\* closing, followed by the callbacks evs.
AfterClose(acc, position_id, closing, evs) ==
    [positions |-> closing.positions,
     calls |-> acc.calls \o closing.calls,
     events |-> acc.events \o closing.events \o evs,
     close_calls |-> Append(acc.close_calls, position_id)]

\* The unrealised P&L _check_directional_position writes.
DirectionalDiff(position, current_price) ==
    IF position.direction = "short" THEN position.price - current_price
    ELSE current_price - position.price

\* Stop loss: pnl_pct <= -stop_loss_pct.
StopLossHit(position, current_price) ==
    DirectionalDiff(position, current_price) * PctScale
        <= -StopLossPct * position.price

\* Funding exit: the rate crossed the exit threshold 0.
FundingExit(position, current_funding_rate) ==
    IF position.direction = "short" THEN current_funding_rate <= 0
    ELSE current_funding_rate >= 0

\* Trailing stop: pnl_pct >= trailing_activation_pct.
TrailingActivates(position, current_price) ==
    DirectionalDiff(position, current_price) * PctScale
        >= TrailingActivationPct * position.price

\* A best price that is written at activation and never moved afterwards.
BestPriceFrozen(position, current_price) ==
    IF position.best_price = 0 THEN current_price ELSE position.best_price

\* The best price after the tick: the lowest price for a short, the highest
\* for a long; best_price 0 stands for NULL.
BestPrice(position, current_price) ==
    IF position.best_price = 0 THEN current_price
    ELSE IF position.direction = "short"
    THEN IF current_price < position.best_price THEN current_price
         ELSE position.best_price
    ELSE IF current_price > position.best_price THEN current_price
         ELSE position.best_price

\* retracement >= trailing_callback_pct.
Retraced(direction, best_price, current_price) ==
    /\ best_price > 0
    /\ IF direction = "short"
       THEN (current_price - best_price) * PctScale
                >= TrailingCallbackPct * best_price
       ELSE (best_price - current_price) * PctScale
                >= TrailingCallbackPct * best_price

\* The activated branch once best_price is written: the take-profit close.
TrailingTakeProfit(acc, position_id, position, best_price, current_price, eA, eB) ==
    IF Retraced(position.direction, best_price, current_price)
    THEN AfterClose(acc, position_id,
                    ClosePositionOn(acc.positions, position_id, eA, eB),
                    <<Event("trailing_stop", position_id)>>)
    ELSE acc

\* Step 4 of _check_directional_position: the trailing stop.
TrailingStop(acc, position_id, position, current_price, eA, eB) ==
    IF ~TrailingStopEnabled THEN acc
    ELSE IF ~position.trailing_stop_activated
    THEN IF TrailingActivates(position, current_price)
         THEN [acc EXCEPT
                  !.positions[position_id].trailing_stop_activated = TRUE,
                  !.positions[position_id].best_price = current_price,
                  !.events = Append(@, Event("trailing_stop", position_id))]
         ELSE acc
    ELSE TrailingTakeProfit(
             [acc EXCEPT !.positions[position_id].best_price =
                             BestPrice(position, current_price)],
             position_id, position, BestPrice(position, current_price),
             current_price, eA, eB)

\* A check that tests the funding exit before the stop loss.
CheckDirectionalPositionFundingFirst(acc, position_id, position, current_price, current_funding_rate, eA, eB) ==
    IF position.price <= 0 THEN acc
    ELSE IF StopLossHit(position, current_price)
            \/ FundingExit(position, current_funding_rate)
    THEN AfterClose(acc, position_id,
             ClosePositionOn(
                 [acc.positions EXCEPT ![position_id].current_pnl =
                     (position.position_size
                      * DirectionalDiff(position, current_price))
                     \div position.price],
                 position_id, eA, eB),
             <<Event(IF FundingExit(position, current_funding_rate)
                     THEN "strategy_exit" ELSE "risk_alert", position_id)>>)
    ELSE TrailingStop(
             [acc EXCEPT !.positions[position_id].current_pnl =
                 (position.position_size
                  * DirectionalDiff(position, current_price))
                 \div position.price],
             position_id, position, current_price, eA, eB)

\* StrategyExecutor._check_directional_position for one snapshot row.
CheckDirectionalPosition(acc, position_id, position, current_price, current_funding_rate, eA, eB) ==
    IF position.price <= 0 THEN acc
    ELSE IF StopLossHit(position, current_price)
            \/ FundingExit(position, current_funding_rate)
    THEN AfterClose(acc, position_id,
             ClosePositionOn(
                 [acc.positions EXCEPT ![position_id].current_pnl =
                     (position.position_size
                      * DirectionalDiff(position, current_price))
                     \div position.price],
                 position_id, eA, eB),
             <<Event(IF StopLossHit(position, current_price)
                     THEN "risk_alert" ELSE "strategy_exit", position_id)>>)
    ELSE TrailingStop(
             [acc EXCEPT !.positions[position_id].current_pnl =
                 (position.position_size
                  * DirectionalDiff(position, current_price))
                 \div position.price],
             position_id, position, current_price, eA, eB)

\* ------------------------------------------------------- funding collected
\* A row of funding_rates: the sample's venue, its timestamp, the settlement
\* instant it announces and the rate.
Sample(exchange, timestamp, next_funding_time, funding_rate) ==
    [exchange |-> exchange, timestamp |-> timestamp,
     next_funding_time |-> next_funding_time, funding_rate |-> funding_rate]

\* The rows "WHERE exchange = ? AND symbol = ? AND next_funding_time > ?
\* AND next_funding_time <= ?" selects.
FundingHistory(exchange, open_time) ==
    {k \in 1..Len(funding_rates) :
        /\ funding_rates[k].exchange = exchange
        /\ funding_rates[k].next_funding_time > open_time
        /\ funding_rates[k].next_funding_time <= now}

\* ORDER BY next_funding_time ASC (rows of one instant in insertion order).
RECURSIVE OrderByNextFundingTime(_)
OrderByNextFundingTime(rows) ==
    IF rows = {} THEN <<>>
    ELSE LET first ==
                 CHOOSE k \in rows : \A j \in rows :
                     \/ funding_rates[k].next_funding_time
                            < funding_rates[j].next_funding_time
                     \/ /\ funding_rates[k].next_funding_time
                              = funding_rates[j].next_funding_time
                        /\ k <= j
         IN <<first>> \o OrderByNextFundingTime(rows \ {first})

\* The loop body that fills settlement_records: a sample replaces the entry
\* of its instant when none is there or when it is newer.
KeepNewestSample(records, row) ==
    IF row.next_funding_time = 0 THEN records
    ELSE IF row.next_funding_time \notin DOMAIN records
    THEN (row.next_funding_time :>
              [rate |-> row.funding_rate, timestamp |-> row.timestamp])
         @@ records
    ELSE IF row.timestamp > records[row.next_funding_time].timestamp
    THEN [records EXCEPT ![row.next_funding_time] =
             [rate |-> row.funding_rate, timestamp |-> row.timestamp]]
    ELSE records

RECURSIVE SettlementRecords(_, _)
SettlementRecords(records, rows) ==
    IF rows = <<>> THEN records
    ELSE SettlementRecords(KeepNewestSample(records, funding_rates[Head(rows)]),
                           Tail(rows))

\* The sign with which a settlement enters funding_collected.
FundingSign(position) ==
    IF position.strategy_type \in {S2A, S2B} THEN 1
    ELSE IF position.strategy_type = S3
    THEN IF position.direction = "short" THEN 1 ELSE -1
    ELSE 0

SumSettlements(position, records) ==
    SumOver([t \in DOMAIN records |->
                FundingSign(position) * position.position_size
                    * records[t].rate],
            DOMAIN records)

\* StrategyExecutor._calculate_single_exchange_funding
CalculateSingleExchangeFunding(position, exchange) ==
    IF \A k \in 1..Len(funding_rates) : funding_rates[k].exchange # exchange
    THEN 0
    ELSE SumSettlements(position,
             SettlementRecords(<<>>,
                 OrderByNextFundingTime(
                     FundingHistory(exchange, position.open_time))))

SumRateDifferences(position, long_records, short_records) ==
    SumOver([t \in DOMAIN long_records \cap DOMAIN short_records |->
                position.position_size
                    * (short_records[t].rate - long_records[t].rate)],
            DOMAIN long_records \cap DOMAIN short_records)

\* StrategyExecutor._calculate_cross_exchange_funding
CalculateCrossExchangeFunding(position) ==
    SumRateDifferences(position,
        SettlementRecords(<<>>, OrderByNextFundingTime(
            FundingHistory(position.long_exchange, position.open_time))),
        SettlementRecords(<<>>, OrderByNextFundingTime(
            FundingHistory(position.short_exchange, position.open_time))))

\* The funding _update_position_fees computes for a snapshot row.
ComputedFunding(position) ==
    IF now - position.open_time > HalfHour
    THEN IF position.strategy_type = S1
         THEN CalculateCrossExchangeFunding(position)
         ELSE CalculateSingleExchangeFunding(position, position.exchange)
    ELSE 0

\* The write-back: only when the value moved by more than the threshold.
WriteBack(rows, position_id, position, funding_collected) ==
    IF funding_collected - position.funding_collected > WriteThreshold
       \/ position.funding_collected - funding_collected > WriteThreshold
    THEN [rows EXCEPT ![position_id].funding_collected = funding_collected,
                      ![position_id].fees_paid = position.fees_paid]
    ELSE rows

\* StrategyExecutor._update_position_fees
UpdatePositionFees(rows, position_id, position) ==
    IF position.position_size = 0 THEN rows
    ELSE WriteBack(rows, position_id, position, ComputedFunding(position))

\* The monitor loop after _update_position_fees.
AfterFees(acc, position_id, position, current_price, current_funding_rate, eA, eB) ==
    IF position.strategy_type = S3
    THEN CheckDirectionalPosition(acc, position_id, position, current_price,
                                  current_funding_rate, eA, eB)
    ELSE acc

\* The body of the monitor loop for one snapshot row.
MonitorOne(acc, position_id, position, current_price, current_funding_rate, eA, eB) ==
    IF position.status = "emergency_close_pending"
    THEN AfterClose(acc, position_id,
                    ClosePositionOn(acc.positions, position_id, eA, eB),
                    <<>>)
    ELSE AfterFees([acc EXCEPT !.positions =
                       UpdatePositionFees(acc.positions, position_id,
                                          position)],
                   position_id, position, current_price,
                   current_funding_rate, eA, eB)

\* One iteration of StrategyExecutor._position_monitoring_loop over the
\* snapshot returned by get_open_positions.
RECURSIVE MonitorPositions(_, _, _, _, _, _, _)
MonitorPositions(acc, ids, snapshot, current_price, current_funding_rate, eA, eB) ==
    IF ids = <<>> THEN acc
    ELSE MonitorPositions(
             MonitorOne(acc, Head(ids), snapshot[Head(ids)], current_price,
                        current_funding_rate, eA, eB),
             Tail(ids), snapshot, current_price, current_funding_rate,
             eA, eB)

\* RiskManager._check_all_positions over its snapshot of open positions.
RECURSIVE CheckAllPositions(_, _, _)
CheckAllPositions(acc, ids, snapshot) ==
    IF ids = <<>> THEN acc
    ELSE
    LET position_id == Head(ids)
        level == RiskLevel(snapshot[position_id])
        next ==
            IF level = "emergency"
            THEN [positions |->
                     [acc.positions EXCEPT
                         ![position_id].status = "emergency_close_pending"],
                  events |-> Append(acc.events, Event("emergency", position_id))]
            ELSE IF level = "none" THEN acc
            ELSE [acc EXCEPT !.events = Append(@, Event(level, position_id))]
    IN CheckAllPositions(next, Tail(ids), snapshot)

\* The ids "SELECT * FROM positions WHERE status = 'open'" returns.
RECURSIVE Ascending(_, _)
Ascending(lo, hi) == IF lo > hi THEN <<>> ELSE <<lo>> \o Ascending(lo + 1, hi)
OpenSnapshot(rows) ==
    SelectSeq(Ascending(1, Len(rows)), LAMBDA i : rows[i].status = "open")

\* ---------------------------------------------------------- reconciliation
RealContracts == 100       \* contracts a venue reports for a live position
\* What get_positions returns for a venue: the sides that are live, each
\* with RealContracts contracts at VenuePrice; a fetch error gives [].
VenueReplies ==
    {r \in [error : BOOLEAN, sides : SUBSET {"long", "short"}] :
        r.error => r.sides = {}}
RealSides(reply) == IF reply.error THEN {} ELSE reply.sides

\* The per-position body of _sync_positions_with_exchange for one venue.
\* acc.raised: a statement raised, the rest of this venue is skipped.
RECURSIVE SyncVenue(_, _, _, _)
SyncVenue(acc, ids, snapshot, reply) ==
    IF ids = <<>> \/ acc.raised THEN acc
    ELSE
    LET position_id == Head(ids)
        db_pos == snapshot[position_id]
        direction == db_pos.direction
        next ==
            IF direction \notin RealSides(reply)
            THEN IF ~PositionsHasSyncColumns
                 THEN [acc EXCEPT !.raised = TRUE]
                 ELSE [acc EXCEPT
                         !.positions[position_id].status = "closed",
                         !.events = Append(@, Event("position_auto_closed",
                                                    position_id))]
            ELSE IF RealContracts # db_pos.position_size
                    \/ VenuePrice # db_pos.entry_price
            THEN IF ~PositionsHasSyncColumns
                 THEN [acc EXCEPT !.raised = TRUE]
                 ELSE [acc EXCEPT
                         !.positions[position_id].position_size = RealContracts,
                         !.positions[position_id].entry_price = VenuePrice,
                         !.positions[position_id].price = VenuePrice,
                         !.events = Append(@, Event("position_updated",
                                                    position_id))]
            ELSE acc
    IN SyncVenue(next, Tail(ids), snapshot, reply)

\* StrategyExecutor._sync_positions_with_exchange: open positions grouped by
\* entry_details.exchange; a group whose venue has no adapter is skipped.
SyncPositionsWithExchange(rows, reply) ==
    LET open == GetOpenPositions(rows)
        venue == "binance"
        group == SelectSeq(open, LAMBDA i : rows[i].exchange = venue)
        start == [positions |-> rows, events |-> <<>>, raised |-> FALSE]
        done == SyncVenue(start, group, rows, reply)
        known == {rows[group[k]].direction : k \in 1..Len(group)}
        mismatch == {side \in RealSides(reply) : side \notin known}
    IN IF group = <<>> \/ venue \notin Adapters THEN start
       ELSE IF done.raised \/ mismatch = {} THEN done
       ELSE [done EXCEPT !.events = Append(@, Event("position_mismatch", 0))]

\* ------------------------------------------------------------ transitions
\* The venue scenarios the executor-level specification draws from: three
\* rejections, or an accepted order that fills and reports its fee.
\* In simulation the venue is never consulted.
IdleEnv == [depth |-> TRUE, rejects |-> 0, fee |-> "none", fill |-> "closed"]
SysLegEnvs ==
    {e \in LegEnvs : e.depth /\ e.fill = "closed" /\ e.rejects \in {0, Retry}
                     /\ (e.rejects = 0 => e.fee = "reported")}
EnvFails(e) == ~e.depth \/ e.rejects = Retry
FirstLeg(S) == IF enable_trading THEN S ELSE {IdleEnv}
\* The scenarios of a leg that is only reached when the previous one is placed.
NextLeg(S, ePrev) == IF enable_trading /\ ~EnvFails(ePrev) THEN S ELSE {IdleEnv}
\* The scenarios of the rollback, reached when leg A is placed and leg B fails.
RollbackLeg(S, eA, eB) ==
    IF enable_trading /\ ~EnvFails(eA) /\ EnvFails(eB) THEN S ELSE {IdleEnv}

\* No scan of the risk manager is in progress.
NoScan == [snapshot |-> <<>>, todo |-> <<>>]
\* No execution stands between its INSERT and its orders.
NoExecution == [pid |-> 0]
NoBook == [bids |-> <<>>, asks |-> <<>>]
\* The two callers of execute_opportunity, the admission loop thread and the
\* operator's HTTP request, before either has called.
Callers == {"execution_loop", "operator"}
NotCalled == [pc |-> "idle"]
NoCalls == [t \in Callers |-> NotCalled]
\* No database operation has been called.
NoDbCall == [pc |-> "idle"]
\* The components main.py starts and stops, in the order it does so, and the
\* loop threads each one's start() creates.
ComponentOrder == <<"data_collector", "opportunity_monitor", "risk_manager", "strategy_executor">>
Components == {ComponentOrder[k] : k \in 1..Len(ComponentOrder)}
LoopsOf(c) ==
    CASE c = "data_collector" -> {"price_collection", "funding_rate_collection"}
      [] c = "opportunity_monitor" -> {"opportunity_monitoring"}
      [] c = "risk_manager" -> {"risk_monitoring"}
      [] c = "strategy_executor" -> {"execution", "position_monitoring", "position_sync"}
Loops == UNION {LoopsOf(c) : c \in Components}
ComponentOf(l) == CHOOSE c \in Components : l \in LoopsOf(c)
\* A component after __init__: self.running = False, no thread created.
NotStarted ==
    [c \in Components |-> [running |-> FALSE, started |-> FALSE, stop_called |-> FALSE]]
\* late: the thread began an iteration after stop() was called.
NoLoops ==
    [l \in Loops |-> [pc |-> "unstarted", late |-> FALSE]]
\* The data collector after __init__: a handle per active account, built by
\* load number 0 of the accounts; no iteration in progress.
MaxExchanges == 2
MaxReloads == 2
ExchangeAccounts == SubSeq(<<"binance", "okx", "bybit", "gate">>, 1, MaxExchanges)
Handle(name, load) == [name |-> name, load |-> load]
NoIteration == [active |-> FALSE, di_pos |-> 0, di_used |-> 0, seen |-> <<>>, began |-> <<>>, raised |-> FALSE]
IdleCollector == [exchanges |-> [k \in 1..MaxExchanges |-> Handle(ExchangeAccounts[k], 0)], load |-> 0, loading |-> FALSE, iteration |-> NoIteration]
\* The config table and the cache before any key is written.
ConfigKeys == {"global.total_capital", "strategy3.enabled"}
NoRow == "<no row>"
EmptyConfig == [k \in ConfigKeys |-> NoRow]

Init ==
    /\ enable_trading \in BOOLEAN
    /\ schema \in Schemas
    /\ positions = <<>>
    /\ orderLog = <<>>
    /\ events = <<>>
    /\ lastOp = Outcome("init", 0, FALSE)
    /\ config = DefaultConfig
    /\ pending_opportunities = <<>>
    /\ paused = FALSE
    /\ loop_pc = "top"
    /\ scan = NoScan
    /\ inflight = NoExecution
    /\ funding_rates = <<>>
    /\ now = 0
    /\ orderbook = NoBook
    /\ market_data = <<>>
    /\ opportunities = <<>>
    /\ config_table = EmptyConfig
    /\ config_cache = EmptyConfig
    /\ collector = IdleCollector
    /\ executing = NoCalls
    /\ market_prices = <<>>
    /\ db_call = NoDbCall
    /\ components = NotStarted
    /\ loops = NoLoops

\* execute_opportunity, called by the admission loop or by the operator.
Executed(opp, r) ==
    /\ positions' = r.positions
    /\ orderLog' = r.calls
    /\ events' = r.events
    /\ lastOp' = [Outcome("execute_opportunity", r.pid, r.success)
                     EXCEPT !.input = opp]

ExecuteOpportunity ==
    /\ Len(positions) < MaxPositions
    /\ \E opp \in Opportunities, eA \in FirstLeg(SysLegEnvs) :
       \E eB \in NextLeg(SysLegEnvs, eA) :
       \E eR \in RollbackLeg(SysLegEnvs, eA, eB) :
          Executed(opp, ExecuteOpportunityResult(opp, eA, eB, eR))
    /\ UNCHANGED <<setup, admission, threads, market>>

\* close_position, called by the operator (HTTP API, bot) for any row id.
CloseRequested(position_id, r) ==
    /\ positions' = r.positions
    /\ orderLog' = r.calls
    /\ events' = r.events
    /\ lastOp' = [Outcome("close_position", position_id, r.ret)
                     EXCEPT !.close_calls = <<position_id>>]

ClosePosition ==
    /\ \E position_id \in 1..MaxPositions, eA \in FirstLeg(SysLegEnvs) :
       \E eB \in NextLeg(SysLegEnvs, eA) :
          CloseRequested(position_id,
                         ClosePositionOn(positions, position_id, eA, eB))
    /\ UNCHANGED <<setup, admission, threads, market>>

CurrentPrices == {97, 103, 106}
CurrentFundingRates == {-1, 1}

\* One tick of the position-monitor loop.
Monitored(current_price, current_funding_rate, r) ==
    /\ positions' = r.positions
    /\ orderLog' = r.calls
    /\ events' = r.events
    /\ lastOp' = [Outcome("monitor_tick", 0, TRUE)
                     EXCEPT !.close_calls = r.close_calls,
                            !.input = [price |-> current_price,
                                       rate |-> current_funding_rate]]

\* A tick with the latest futures price drawn from prices.
MonitorTickAt(prices) ==
    /\ \E current_price \in prices,
          current_funding_rate \in CurrentFundingRates,
          eA \in FirstLeg(SysLegEnvs) :
       \E eB \in NextLeg(SysLegEnvs, eA) :
          Monitored(current_price, current_funding_rate,
                    MonitorPositions(
                        [positions |-> positions, calls |-> <<>>,
                         events |-> <<>>, close_calls |-> <<>>],
                        GetOpenPositions(positions), positions, current_price,
                        current_funding_rate, eA, eB))
    /\ UNCHANGED <<setup, admission, threads, market>>

MonitorTick == MonitorTickAt(CurrentPrices)

\* One scan of the risk manager's monitoring loop.
RiskScan ==
    /\ LET r == CheckAllPositions([positions |-> positions, events |-> <<>>],
                                  OpenSnapshot(positions), positions)
       IN /\ positions' = r.positions
          /\ events' = r.events
    /\ orderLog' = <<>>
    /\ lastOp' = Outcome("risk_scan", 0, TRUE)
    /\ UNCHANGED <<setup, admission, threads, market>>

\* One reconciliation against the venue.
Synced(reply, r) ==
    /\ positions' = r.positions
    /\ events' = r.events
    /\ orderLog' = <<>>
    /\ lastOp' = [Outcome("sync_positions", 0, TRUE) EXCEPT !.input = reply]

Reconcile ==
    /\ \E reply \in VenueReplies :
          Synced(reply, SyncPositionsWithExchange(positions, reply))
    /\ UNCHANGED <<setup, admission, threads, market>>

Next ==
    \/ ExecuteOpportunity
    \/ ClosePosition
    \/ MonitorTick
    \/ RiskScan
    \/ Reconcile

Spec == Init /\ [][Next]_vars

\* ---------------------------------------------- trailing stop specification
\* The monitor ticking over one open directional position, short or long,
\* entered at 100, with prices on both sides of the activation, callback and
\* stop-loss thresholds.
TrailPrices == {92, 95, 96, 100, 105, 108}

InitTrail ==
    /\ now = 0
    /\ funding_rates = <<>>
    /\ enable_trading \in BOOLEAN
    /\ schema \in Schemas
    /\ \E direction \in {"short", "long"} :
          positions = <<NewPosition(Opp(S3, "binance", "", "", direction, 200,
                                        100, 70, 0), 200)>>
    /\ orderLog = <<>>
    /\ events = <<>>
    /\ lastOp = Outcome("init", 0, FALSE)
    /\ config = DefaultConfig
    /\ pending_opportunities = <<>>
    /\ paused = FALSE
    /\ loop_pc = "top"
    /\ scan = NoScan
    /\ inflight = NoExecution
    /\ orderbook = NoBook
    /\ market_data = <<>>
    /\ opportunities = <<>>
    /\ config_table = EmptyConfig
    /\ config_cache = EmptyConfig
    /\ collector = IdleCollector
    /\ executing = NoCalls
    /\ market_prices = <<>>
    /\ db_call = NoDbCall
    /\ components = NotStarted
    /\ loops = NoLoops

TrailTick == MonitorTickAt(TrailPrices)

NextTrail == TrailTick

SpecTrail == InitTrail /\ [][NextTrail]_vars

\* --------------------------------------------------- funding specification
\* The monitor ticking over one open position while the clock advances and
\* the data collector stores funding samples of the position's venue.
MaxTime == 4
MaxSamples == 3
SettlementInstants == {1, 3}
FundingRateValues == {5, 1000}

InitFunding ==
    /\ enable_trading = FALSE
    /\ schema = "extended"
    /\ now = 0
    /\ \E opp \in {Opp(S2A, "binance", "", "", "", 200, 100, 90, 0),
                    Opp(S3, "binance", "", "", "short", 200, 100, 70, 0),
                    Opp(S3, "binance", "", "", "long", 200, 100, 70, 0)} :
          positions = <<NewPosition(opp, 200)>>
    /\ orderLog = <<>>
    /\ events = <<>>
    /\ lastOp = Outcome("init", 0, FALSE)
    /\ config = DefaultConfig
    /\ pending_opportunities = <<>>
    /\ paused = FALSE
    /\ loop_pc = "top"
    /\ scan = NoScan
    /\ inflight = NoExecution
    /\ funding_rates = <<>>
    /\ orderbook = NoBook
    /\ market_data = <<>>
    /\ opportunities = <<>>
    /\ config_table = EmptyConfig
    /\ config_cache = EmptyConfig
    /\ collector = IdleCollector
    /\ executing = NoCalls
    /\ market_prices = <<>>
    /\ db_call = NoDbCall
    /\ components = NotStarted
    /\ loops = NoLoops

\* Half an hour passes.
AdvanceClock ==
    /\ now < MaxTime
    /\ now' = now + 1
    /\ UNCHANGED <<setup, positions, orderLog, events, lastOp, admission,
                   threads, funding_rates, orderbook, market_data,
                   opportunities, collector, market_prices>>

\* The data collector stores a sample: (exchange, symbol, timestamp) is
\* unique and the settlement it announces lies ahead.
RecordSample ==
    /\ Len(funding_rates) < MaxSamples
    /\ \A k \in 1..Len(funding_rates) : funding_rates[k].timestamp # now
    /\ \E next_funding_time \in SettlementInstants,
          funding_rate \in FundingRateValues :
          /\ next_funding_time > now
          /\ funding_rates' =
                Append(funding_rates,
                       Sample("binance", now, next_funding_time, funding_rate))
    /\ UNCHANGED <<setup, positions, orderLog, events, lastOp, admission,
                   threads, now, orderbook, market_data, opportunities,
                   collector, market_prices>>

FundingTick == MonitorTickAt({VenuePrice})

NextFunding ==
    \/ AdvanceClock
    \/ RecordSample
    \/ FundingTick

SpecFunding == InitFunding /\ [][NextFunding]_vars

\* The settlement instants of a venue after open_time and up to now.
InstantsSince(exchange, open_time) ==
    {funding_rates[k].next_funding_time : k \in FundingHistory(exchange, open_time)}

\* The rate of the newest sample that announces the instant.
NewestRate(exchange, instant) ==
    LET k == CHOOSE j \in 1..Len(funding_rates) :
                 /\ funding_rates[j].exchange = exchange
                 /\ funding_rates[j].next_funding_time = instant
                 /\ \A i \in 1..Len(funding_rates) :
                       (/\ funding_rates[i].exchange = exchange
                        /\ funding_rates[i].next_funding_time = instant)
                       => funding_rates[i].timestamp
                              <= funding_rates[j].timestamp
    IN funding_rates[k].funding_rate

\* --------------------------------------------- interleaving specification
\* The risk manager's scan, a thread of its own, taken statement by statement
\* (the SELECT, then one _check_position_risk per row of the snapshot),
\* interleaved with the executor: an execution split at its INSERT, the
\* monitor tick and close_position.
ScanOpportunities ==
    {Opp(S2A, "binance", "", "", "", 200, 50, 90, 0),
     Opp(S3, "binance", "", "", "short", 200, 100, 70, 0)}

\* What an execution does after its row pid is inserted: the orders, then
\* the row's fate.
FinishResult(rows, opp, size, pid, eA, eB, eR) ==
    IF opp.type = S1
    THEN CrossExchangeFundingResult(rows, pid,
             CreateCrossExchangePair(opp.long_exchange, opp.short_exchange,
                 opp.symbol, AmountOf(size, opp.price), pid, S1, eA, eB, eR))
    ELSE IF opp.type = S2A
    THEN SpotFuturesFundingResult(rows, pid,
             CreateSpotFuturesPair(opp.exchange, opp.symbol,
                 AmountOf(size, opp.price), pid, S2A, eA, eB, eR))
    ELSE IF opp.type = S2B
    THEN BasisArbitrageResult(rows, pid,
             CreateSpotFuturesPair(opp.exchange, opp.symbol,
                 AmountOf(size, opp.price), pid, S2B, eA, eB, eR))
    ELSE DirectionalResult(rows, pid,
             Call(Args(opp.exchange, opp.symbol,
                       IF opp.direction = "short" THEN "sell" ELSE "buy",
                       DirectionalAmount(size, opp.price), TRUE, pid, S3,
                       TRUE), eA))

\* The execution reaches its INSERT: the risk check passed and, for the
\* directional strategy, the size is at least the minimum order value.
Inserts(opp, risk_check) ==
    /\ risk_check.passed
    /\ opp.type = S3 => risk_check.adjusted_position_size >= MinOrderValue

Begun(opp, risk_check) ==
    /\ Inserts(opp, risk_check)
    /\ positions' =
          Append(positions, NewPosition(opp, risk_check.adjusted_position_size))
    /\ inflight' = [pid |-> Len(positions) + 1, opp |-> opp,
                    size |-> risk_check.adjusted_position_size]
    /\ orderLog' = <<>>
    /\ events' = <<>>
    /\ lastOp' = [Outcome("insert_position", Len(positions) + 1, TRUE)
                     EXCEPT !.input = opp]

\* execute_opportunity up to and including INSERT INTO positions.
ExecuteBegin ==
    /\ inflight = NoExecution
    /\ Len(positions) < MaxPositions
    /\ \E opp \in ScanOpportunities : Begun(opp, CheckPreTradeRisk(opp))
    /\ UNCHANGED <<setup, admission, scan, requests, lifecycle, market>>

\* execute_opportunity from the order manager call to its return.
ExecuteFinish ==
    /\ inflight # NoExecution
    /\ \E eA \in FirstLeg(SysLegEnvs) :
       \E eB \in NextLeg(SysLegEnvs, eA) :
       \E eR \in RollbackLeg(SysLegEnvs, eA, eB) :
          Executed(inflight.opp,
                   FinishResult(positions, inflight.opp, inflight.size,
                                inflight.pid, eA, eB, eR))
    /\ inflight' = NoExecution
    /\ UNCHANGED <<setup, admission, scan, requests, lifecycle, market>>

\* _check_all_positions: SELECT * FROM positions WHERE status = 'open'.
ScanSnapshot ==
    /\ scan.todo = <<>>
    /\ OpenSnapshot(positions) # <<>>
    /\ scan' = [snapshot |-> positions, todo |-> OpenSnapshot(positions)]
    /\ UNCHANGED <<setup, positions, orderLog, events, lastOp, admission,
                   inflight, requests, lifecycle, market>>

ScanStepped(position_id, r) ==
    /\ positions' = r.positions
    /\ events' = r.events
    /\ orderLog' = <<>>
    /\ lastOp' = Outcome("check_position_risk", position_id, TRUE)

\* _check_position_risk for the next row of the snapshot.
ScanStep ==
    /\ scan.todo # <<>>
    /\ ScanStepped(Head(scan.todo),
                   CheckAllPositions([positions |-> positions, events |-> <<>>],
                                     <<Head(scan.todo)>>, scan.snapshot))
    /\ scan' = IF Tail(scan.todo) = <<>> THEN NoScan
               ELSE [scan EXCEPT !.todo = Tail(scan.todo)]
    /\ UNCHANGED <<setup, admission, inflight, requests, lifecycle, market>>

NextScan ==
    \/ ExecuteBegin
    \/ ExecuteFinish
    \/ MonitorTick
    \/ ClosePosition
    \/ ScanSnapshot
    \/ ScanStep

SpecScan == Init /\ [][NextScan]_vars

\* ----------------------------------------------- risk check specification
\* check_pre_trade_risk applied to every configuration, positions table and
\* opportunity of the sets below.
RiskConfigs ==
    {[DefaultConfig EXCEPT !.total_capital = total_capital,
                           !.max_positions = max_positions,
                           !.pair_max_positions = pair_max_positions] :
        total_capital \in {0, 1000, TotalCapital},
        max_positions \in {1, GlobalMaxPositions},
        pair_max_positions \in {1, PairMaxPositions}}

\* A directional row as the executor and the monitor leave it.
RiskRow(size, pnl, status) ==
    [NewPosition(Opp(S3, "binance", "", "", "short", size, 100, 70, 0), size)
        EXCEPT !.current_pnl = pnl, !.status = status]

RiskRows ==
    {RiskRow(size, pnl, status) :
        size \in {200, 800}, pnl \in {-150, -50, 0},
        status \in {"open", "closed"}}

RECURSIVE RiskTables(_)
RiskTables(n) ==
    IF n = 0 THEN {<<>>}
    ELSE RiskTables(n - 1)
         \cup {Append(t, r) : t \in {u \in RiskTables(n - 1) : Len(u) = n - 1},
                              r \in RiskRows}

RiskOpportunities ==
    Opportunities
    \cup {Opp(S2A, "binance", "", "", "", 900, 50, 90, 0),
          Opp(S2A, "binance", "", "", "", 900, 50, 50, 0)}

InitRisk ==
    /\ now = 0
    /\ funding_rates = <<>>
    /\ enable_trading = FALSE
    /\ schema = "extended"
    /\ positions \in RiskTables(MaxPositions)
    /\ orderLog = <<>>
    /\ events = <<>>
    /\ lastOp = Outcome("init", 0, FALSE)
    /\ config \in RiskConfigs
    /\ pending_opportunities = <<>>
    /\ paused = FALSE
    /\ loop_pc = "top"
    /\ scan = NoScan
    /\ inflight = NoExecution
    /\ orderbook = NoBook
    /\ market_data = <<>>
    /\ opportunities = <<>>
    /\ config_table = EmptyConfig
    /\ config_cache = EmptyConfig
    /\ collector = IdleCollector
    /\ executing = NoCalls
    /\ market_prices = <<>>
    /\ db_call = NoDbCall
    /\ components = NotStarted
    /\ loops = NoLoops

RiskChecked(opp, risk_check) ==
    lastOp' = [Outcome("check_pre_trade_risk", 0, risk_check.passed)
                  EXCEPT !.input = opp, !.risk_check = risk_check]

CheckRisk ==
    /\ \E opp \in RiskOpportunities : RiskChecked(opp, CheckPreTradeRisk(opp))
    /\ UNCHANGED <<setup, positions, orderLog, events, admission, threads, market>>

NextRisk == CheckRisk

SpecRisk == InitRisk /\ [][NextRisk]_vars

\* The capital check_pre_trade_risk may still commit.
AvailableCapital ==
    (config.total_capital * MaxCapitalUsageTenths) \div 10 - SumOpenSize

\* ------------------------------------------------ admission specification
\* submit_opportunity, set_paused and the admission loop thread, interleaved
\* at the statements of _execution_loop.
MaxPending == 2
ExecutionModes == {"auto", "manual"}
RiskLevels == {"low", "high"}

AdmitConfigs ==
    {[DefaultConfig EXCEPT !.pair = pair] :
        pair \in [s1_execution_mode : ExecutionModes,
                  s2a_execution_mode : ExecutionModes,
                  s2b_execution_mode : ExecutionModes]}

\* The opportunities the opportunity monitor submits: an opportunity of each
\* strategy, with its risk_level.
Submissions ==
    {opp @@ [risk_level |-> risk_level] :
        opp \in {Opp(S1, "", "binance", "okx", "", 200, 100, 70, 10),
                 Opp(S2A, "binance", "", "", "", 200, 50, 90, 0),
                 Opp(S2B, "binance", "", "", "", 200, 100, 70, 0),
                 Opp(S3, "binance", "", "", "short", 200, 100, 70, 0)},
        risk_level \in RiskLevels}

\* An execution mode taken from the pair configuration for basis arbitrage
\* as well.
ExecutionModeFromPairConfig(opp) ==
    IF opp.type = S1 THEN config.pair.s1_execution_mode
    ELSE IF opp.type = S2A THEN config.pair.s2a_execution_mode
    ELSE IF opp.type = S2B THEN config.pair.s2b_execution_mode
    ELSE IF opp.type = S3 THEN "auto"
    ELSE "manual"

\* submit_opportunity: the execution mode of the opportunity.
ExecutionMode(opp) ==
    IF opp.type = S1 THEN config.pair.s1_execution_mode
    ELSE IF opp.type = S2A THEN config.pair.s2a_execution_mode
    ELSE IF opp.type = S2B THEN "manual"
    ELSE IF opp.type = S3 THEN "auto"
    ELSE "manual"

InitAdmit ==
    /\ enable_trading = FALSE
    /\ schema = "extended"
    /\ positions = <<>>
    /\ orderLog = <<>>
    /\ events = <<>>
    /\ lastOp = Outcome("init", 0, FALSE)
    /\ config \in AdmitConfigs
    /\ pending_opportunities = <<>>
    /\ paused = FALSE
    /\ loop_pc = "top"
    /\ scan = NoScan
    /\ inflight = NoExecution
    /\ funding_rates = <<>>
    /\ now = 0
    /\ orderbook = NoBook
    /\ market_data = <<>>
    /\ opportunities = <<>>
    /\ config_table = EmptyConfig
    /\ config_cache = EmptyConfig
    /\ collector = IdleCollector
    /\ executing = NoCalls
    /\ market_prices = <<>>
    /\ db_call = NoDbCall
    /\ components = NotStarted
    /\ loops = NoLoops

\* StrategyExecutor.submit_opportunity
Submitted(opp, execution_mode) ==
    /\ IF execution_mode = "auto" /\ opp.risk_level = "low"
       THEN /\ pending_opportunities' = Append(pending_opportunities, opp)
            /\ events' = <<>>
       ELSE /\ pending_opportunities' = pending_opportunities
            /\ events' = <<Event("opportunity_found", 0)>>
    /\ orderLog' = <<>>
    /\ lastOp' = [Outcome("submit_opportunity", 0, TRUE) EXCEPT !.input = opp]

SubmitOpportunity ==
    /\ Len(pending_opportunities) < MaxPending
    /\ \E opp \in Submissions : Submitted(opp, ExecutionMode(opp))
    /\ UNCHANGED <<setup, positions, paused, loop_pc, threads, market>>

\* StrategyExecutor.set_paused, called from the bot's thread.
SetPaused ==
    /\ \E value \in BOOLEAN : paused' = value
    /\ UNCHANGED <<setup, positions, orderLog, events, lastOp,
                   pending_opportunities, loop_pc, threads, market>>

\* _execution_loop: "if self.paused: sleep; continue".
LoopTestPaused ==
    /\ loop_pc = "top"
    /\ loop_pc' = IF paused THEN "top" ELSE "test_queue"
    /\ UNCHANGED <<setup, positions, orderLog, events, lastOp,
                   pending_opportunities, paused, threads, market>>

\* _execution_loop: "if self.pending_opportunities: ... else: sleep".
LoopTestQueue ==
    /\ loop_pc = "test_queue"
    /\ loop_pc' = IF pending_opportunities # <<>> THEN "pop" ELSE "top"
    /\ UNCHANGED <<setup, positions, orderLog, events, lastOp,
                   pending_opportunities, paused, threads, market>>

\* _execution_loop: pop(0), then execute_opportunity.
LoopAdmit ==
    /\ loop_pc = "pop"
    /\ Len(positions) < MaxPositions
    /\ \E eA \in FirstLeg(SysLegEnvs) :
       \E eB \in NextLeg(SysLegEnvs, eA) :
       \E eR \in RollbackLeg(SysLegEnvs, eA, eB) :
          Executed(Head(pending_opportunities),
                   ExecuteOpportunityResult(Head(pending_opportunities),
                                            eA, eB, eR))
    /\ pending_opportunities' = Tail(pending_opportunities)
    /\ loop_pc' = "top"
    /\ UNCHANGED <<setup, paused, threads, market>>

NextAdmit ==
    \/ SubmitOpportunity
    \/ SetPaused
    \/ LoopTestPaused
    \/ LoopTestQueue
    \/ LoopAdmit

SpecAdmit == InitAdmit /\ [][NextAdmit]_vars

\* ------------------------------------------- order manager specification
\* The operations of the order manager called directly, with every venue
\* scenario of LegEnvs.
OMExchanges == {"binance", "bybit"}
OMShortExchanges == {"okx", "bybit"}
OMAmount == 2
\* The scenarios of a rollback: the book too thin, accepted, rejected.
RollbackEnvs ==
    {e \in LegEnvs : e.fill = "closed" /\ e.fee = "none" /\ e.rejects # 1}

OMOutcome(op, r) ==
    [Outcome(op, 1, r.success) EXCEPT !.total_fee = r.total_fee]

OMOrdered(c) ==
    /\ orderLog' = <<c>>
    /\ lastOp' = Outcome("create_order", 1, Placed(c))

OMPaired(op, r) ==
    /\ orderLog' = r.calls
    /\ lastOp' = OMOutcome(op, r)

OMPairClosed(op, r) ==
    /\ orderLog' = r.calls
    /\ lastOp' = Outcome(op, 1, r.success)

OMOrderTypes == {"market", "limit", "stop"}

\* Market orders meet every venue scenario; the other order types are asked
\* for as unchecked buys that the venue accepts at once.
OMCreateOrder ==
    /\ \E exchange \in OMExchanges, side \in {"buy", "sell"},
          strategy_type \in {S2A, "rollback"}, check_depth \in BOOLEAN,
          order_type \in OMOrderTypes, e \in FirstLeg(LegEnvs) :
          /\ (order_type # "market") =>
                (side = "buy" /\ strategy_type = S2A /\ ~check_depth
                 /\ e = IdleEnv)
          /\ OMOrdered(Call([Args(exchange, "BTC/USDT", side, OMAmount, TRUE,
                                  1, strategy_type, check_depth)
                                EXCEPT !.order_type = order_type], e))
    /\ UNCHANGED <<setup, positions, events, admission, threads, market>>

OMCreateSpotFuturesPair ==
    /\ \E exchange \in OMExchanges, eA \in FirstLeg(LegEnvs) :
       \E eB \in NextLeg(LegEnvs, eA) :
       \E eR \in RollbackLeg(RollbackEnvs, eA, eB) :
          OMPaired("create_spot_futures_pair",
                   CreateSpotFuturesPair(exchange, "BTC/USDT", OMAmount, 1,
                                         S2A, eA, eB, eR))
    /\ UNCHANGED <<setup, positions, events, admission, threads, market>>

OMCreateCrossExchangePair ==
    /\ \E short_exchange \in OMShortExchanges, eA \in FirstLeg(LegEnvs) :
       \E eB \in NextLeg(LegEnvs, eA) :
       \E eR \in RollbackLeg(RollbackEnvs, eA, eB) :
          OMPaired("create_cross_exchange_pair",
                   CreateCrossExchangePair("binance", short_exchange,
                       "BTC/USDT", OMAmount, 1, S1, eA, eB, eR))
    /\ UNCHANGED <<setup, positions, events, admission, threads, market>>

OMCloseSpotFuturesPair ==
    /\ \E exchange \in OMExchanges, eA \in FirstLeg(LegEnvs) :
       \E eB \in NextLeg(LegEnvs, eA) :
          OMPairClosed("close_spot_futures_pair",
                       CloseSpotFuturesPair(exchange, "BTC/USDT", OMAmount,
                                            1, eA, eB))
    /\ UNCHANGED <<setup, positions, events, admission, threads, market>>

OMCloseCrossExchangePair ==
    /\ \E short_exchange \in OMShortExchanges, eA \in FirstLeg(LegEnvs) :
       \E eB \in NextLeg(LegEnvs, eA) :
          OMPairClosed("close_cross_exchange_pair",
                       CloseCrossExchangePair("binance", short_exchange,
                           "BTC/USDT", OMAmount, 1, eA, eB))
    /\ UNCHANGED <<setup, positions, events, admission, threads, market>>

NextOM ==
    \/ OMCreateOrder
    \/ OMCreateSpotFuturesPair
    \/ OMCreateCrossExchangePair
    \/ OMCloseSpotFuturesPair
    \/ OMCloseCrossExchangePair

SpecOM == Init /\ [][NextOM]_vars

TypeOK ==
    /\ enable_trading \in BOOLEAN
    /\ schema \in Schemas
    /\ Len(positions) <= MaxPositions
    /\ \A i \in 1..Len(positions) :
          positions[i].status \in
              {"open", "closed", "failed", "emergency_close_pending"}

\* ------------------------------------------------------------------ claims
\* C1: a pair creation asks for its legs strictly in sequence.  When leg A
\* fails nothing else is requested and the pair fails.  When leg A is placed
\* and leg B fails, exactly one rollback follows: on leg A's venue, symbol and
\* market, with the opposite side, the same amount, as a market order that
\* skips the depth check (a thin book does not stop it); the pair fails.  When
\* both legs are placed nothing else is requested and the pair succeeds.
C1_PairSequenceAndRollback ==
    lastOp.op \in {"create_spot_futures_pair", "create_cross_exchange_pair"}
    => LET n == Len(orderLog)
           A == orderLog[1]
           B == orderLog[2]
           R == orderLog[3]
       IN /\ n \in 1..3
          /\ A.args.strategy_type # "rollback"
          /\ ~Placed(A) => (n = 1 /\ ~lastOp.success)
          /\ Placed(A) => (n >= 2 /\ B.args.strategy_type # "rollback")
          /\ (n >= 2 /\ Placed(B)) => (n = 2 /\ lastOp.success)
          /\ (n >= 2 /\ ~Placed(B))
             => /\ n = 3
                /\ ~lastOp.success
                /\ R.args.strategy_type = "rollback"
                /\ R.args.exchange = A.args.exchange
                /\ R.args.symbol = A.args.symbol
                /\ R.args.is_futures = A.args.is_futures
                /\ R.args.amount = A.args.amount
                /\ R.args.side # A.args.side
                /\ R.args.order_type = "market"
                /\ ~R.args.check_depth
                /\ (R.env.rejects < Retry /\ OrdersHasFeeColumns) => Placed(R)

\* C1 witness: leg B failed after leg A was placed, and the rollback went
\* through although the book was too thin for a depth-checked order.
C1_Witness ==
    /\ lastOp.op = "create_cross_exchange_pair"
    /\ Len(orderLog) = 3
    /\ Placed(orderLog[1])
    /\ ~Placed(orderLog[2])
    /\ ~orderLog[3].env.depth
    /\ Placed(orderLog[3])
    /\ orderLog[3].args.side = "sell"

\* C2: in simulation the venue's order-creation endpoint is never called, and
\* every create_order request yields an order with a SIM_ id, status closed,
\* filled = requested amount, and an Order row.
C2_SimulatedOrders ==
    ~enable_trading
    => \A i \in 1..Len(orderLog) :
          LET c == orderLog[i]
          IN /\ c.res.submits = 0
             /\ Placed(c)
             /\ c.res.order.id = "SIM_"
             /\ c.res.order.status = "closed"
             /\ c.res.order.filled = c.args.amount
             /\ c.res.row # NoOrder
             /\ c.res.row.order_id = "SIM_"

\* C3: a position's status only changes open -> emergency_close_pending,
\* open -> closed, emergency_close_pending -> closed or open -> failed; a
\* closed or failed position never changes status again.
C3_StatusTransitions ==
    [][\A i \in 1..Len(positions) :
          \/ positions'[i].status = positions[i].status
          \/ <<positions[i].status, positions'[i].status>> \in
                {<<"open", "emergency_close_pending">>,
                 <<"open", "closed">>,
                 <<"emergency_close_pending", "closed">>,
                 <<"open", "failed">>}]_vars

\* C4: a position in emergency_close_pending is handled by the next monitor
\* tick, which calls close_position for it.
C4_PendingHandledByNextTick ==
    [][lastOp'.op = "monitor_tick"
       => \A i \in 1..Len(positions) :
             positions[i].status = "emergency_close_pending"
             => \E k \in 1..Len(lastOp'.close_calls) :
                   lastOp'.close_calls[k] = i]_vars

\* C5: in live mode a placed order is one the venue confirmed as filled, so a
\* pair that reports success has both legs confirmed filled; a leg whose fill
\* polling ends canceled, expired or timed out is not a placed order.
C5_SuccessMeansFilled ==
    enable_trading
    => /\ \A i \in 1..Len(orderLog) :
             Placed(orderLog[i]) => orderLog[i].res.fill = "closed"
       /\ (lastOp.success
           /\ lastOp.op \in {"create_spot_futures_pair",
                             "create_cross_exchange_pair"})
          => /\ Len(orderLog) = 2
             /\ orderLog[1].res.fill = "closed"
             /\ orderLog[2].res.fill = "closed"

\* C6: close_position marks the position closed, with a close time and a
\* position_closed event, only when every closing leg is placed; when a
\* closing leg fails it returns false, leaves the positions as they were,
\* emits nothing and requests no rollback of a leg already closed.
C6_CloseAllOrNothing ==
    [][lastOp'.op = "close_position"
       => LET pid == lastOp'.pid
          IN /\ lastOp'.success
                => /\ orderLog' # <<>>
                   /\ \A k \in 1..Len(orderLog') : Placed(orderLog'[k])
                   /\ positions'[pid].status = "closed"
                   /\ positions'[pid].close_time
                   /\ events' = <<Event("position_closed", pid)>>
             /\ ~lastOp'.success
                => /\ positions' = positions
                   /\ events' = <<>>
             /\ (\E k \in 1..Len(orderLog') : ~Placed(orderLog'[k]))
                => ~lastOp'.success
             /\ \A k \in 1..Len(orderLog') :
                   orderLog'[k].args.strategy_type = "close_position"]_vars

\* C6 witness: the second closing leg failed after the first was placed, and
\* the position is still open.
C6_Witness ==
    /\ lastOp.op = "close_position"
    /\ ~lastOp.success
    /\ Len(orderLog) = 2
    /\ Placed(orderLog[1])
    /\ ~Placed(orderLog[2])
    /\ lastOp.pid \in 1..Len(positions)
    /\ positions[lastOp.pid].status = "open"

\* C7: close_position on an open directional position requests exactly one
\* futures market order with the side opposite to the position's direction;
\* when that order is accepted the position becomes closed.
C7_DirectionalClose ==
    [][(/\ lastOp'.op = "close_position"
        /\ lastOp'.pid \in 1..Len(positions)
        /\ positions[lastOp'.pid].strategy_type = S3
        /\ positions[lastOp'.pid].status = "open")
       => /\ Len(orderLog') = 1
          /\ orderLog'[1].args.is_futures
          /\ orderLog'[1].args.order_type = "market"
          /\ orderLog'[1].args.side =
                (IF positions[lastOp'.pid].direction = "short"
                 THEN "buy" ELSE "sell")
          /\ Placed(orderLog'[1])
             => positions'[lastOp'.pid].status = "closed"]_vars

\* C8: for every strategy, when all opening orders are placed,
\* execute_opportunity stores the total opening fee in fees_paid, emits
\* position_opened exactly once, returns success with the position id and
\* leaves the position open.
C8_OpenSuccess ==
    (/\ lastOp.op = "execute_opportunity"
     /\ orderLog # <<>>
     /\ \A k \in 1..Len(orderLog) : Placed(orderLog[k]))
    => /\ lastOp.success
       /\ lastOp.pid \in 1..Len(positions)
       /\ positions[lastOp.pid].status = "open"
       /\ positions[lastOp.pid].fees_paid =
             FeeOf(orderLog[1])
             + (IF Len(orderLog) = 2 THEN FeeOf(orderLog[2]) ELSE 0)
       /\ events = <<Event("position_opened", lastOp.pid)>>

\* C9: when an opening leg is not placed, execute_opportunity leaves the
\* position row failed, returns failure and emits no position_opened.
C9_OrderFailure ==
    (/\ lastOp.op = "execute_opportunity"
     /\ \E k \in 1..Len(orderLog) : k <= 2 /\ ~Placed(orderLog[k]))
    => /\ ~lastOp.success
       /\ lastOp.pid \in 1..Len(positions)
       /\ positions[lastOp.pid].status = "failed"
       /\ \A k \in 1..Len(events) : events[k].type # "position_opened"

\* C9 witness: the second opening leg of a basis arbitrage was rejected, the
\* first was rolled back and the row is failed.
C9_Witness ==
    /\ lastOp.op = "execute_opportunity"
    /\ Len(orderLog) = 3
    /\ ~Placed(orderLog[2])
    /\ lastOp.pid \in 1..Len(positions)
    /\ positions[lastOp.pid].strategy_type = S2B
    /\ positions[lastOp.pid].status = "failed"

\* C10: when the second opening leg is rejected after the first was placed,
\* the operator is notified through an execution_failed event.
C10_RejectedHedgeNotifies ==
    (/\ lastOp.op = "execute_opportunity"
     /\ Len(orderLog) = 3
     /\ Placed(orderLog[1])
     /\ ~Placed(orderLog[2]))
    => \E k \in 1..Len(events) : events[k].type = "execution_failed"

\* C11: when check_pre_trade_risk rejects the opportunity, execute_opportunity
\* emits execution_failed carrying the reason of the rejection and stops: the
\* positions table is left as it was, no order is requested from the order
\* manager, and the call reports failure.
C11_RejectStops ==
    [][(/\ lastOp'.op = "execute_opportunity"
        /\ ~CheckPreTradeRisk(lastOp'.input).passed)
       => /\ positions' = positions
          /\ orderLog' = <<>>
          /\ events' = <<[type |-> "execution_failed", pid |-> 0,
                          reason |->
                              CheckPreTradeRisk(lastOp'.input).reason]>>
          /\ ~lastOp'.success]_vars

\* A cross-exchange opportunity whose price difference exceeds the deviation
\* threshold was rejected.
C11_Witness ==
    /\ lastOp.op = "execute_opportunity"
    /\ lastOp.input.type = S1
    /\ lastOp.input.price_diff_pct > PriceDeviationThreshold
    /\ events = <<[type |-> "execution_failed", pid |-> 0,
                   reason |-> "price_deviation"]>>
    /\ positions = <<>>

\* C12: check_pre_trade_risk passes only when the count checks passed: it
\* never passes while the number of open positions has reached the global
\* max_positions, nor while the number of open positions of the
\* opportunity's symbol has reached the pair's max_positions, whatever the
\* size asked for.
C12_PassRespectsPositionCounts ==
    (lastOp.op = "check_pre_trade_risk" /\ lastOp.risk_check.passed)
    => /\ Cardinality(OpenIds) < config.max_positions
       /\ Cardinality({i \in OpenIds :
                          positions[i].symbol = lastOp.input.symbol})
              < config.pair_max_positions

\* C13: whenever check_pre_trade_risk passes, the size it returns is positive
\* and at most the available capital (total_capital * max_capital_usage less
\* the sizes of the open positions).
C13_AdjustedSizeWithinCapital ==
    (lastOp.op = "check_pre_trade_risk" /\ lastOp.risk_check.passed)
    => /\ 0 < lastOp.risk_check.adjusted_position_size
       /\ lastOp.risk_check.adjusted_position_size <= AvailableCapital

\* C14: while the summed current_pnl of the open positions, divided by
\* total_capital, is below -max_drawdown, check_pre_trade_risk rejects every
\* opportunity.
C14_DrawdownRejects ==
    (/\ lastOp.op = "check_pre_trade_risk"
     /\ config.total_capital > 0
     /\ SumOpenPnl * PctScale < -MaxDrawdown * config.total_capital)
    => ~lastOp.risk_check.passed

\* An oversized opportunity, which the per-trade clamp would let pass, was
\* rejected while the open positions had lost more than max_drawdown.
C14_Witness ==
    /\ lastOp.op = "check_pre_trade_risk"
    /\ config.total_capital > 0
    /\ SumOpenPnl * PctScale < -MaxDrawdown * config.total_capital
    /\ lastOp.input.position_size > MaxPositionSizePerTrade
    /\ lastOp.risk_check = Verdict(FALSE, "drawdown",
                                   lastOp.input.position_size)

\* C15: submit_opportunity appends the opportunity to the pending queue when
\* its execution mode (the pair's s1/s2a mode; manual for basis arbitrage;
\* auto for the directional strategy) is auto and its risk level is low, and
\* emits nothing; otherwise it leaves the queue as it was and emits
\* opportunity_found.  A basis-arbitrage opportunity is never in the queue,
\* whatever the pair configuration says.
C15_AutoLowEnqueues ==
    [][(lastOp'.op = "submit_opportunity" /\ UNCHANGED <<paused, loop_pc>>)
       => LET opp == lastOp'.input
              auto == \/ opp.type = S1
                         /\ config.pair.s1_execution_mode = "auto"
                      \/ opp.type = S2A
                         /\ config.pair.s2a_execution_mode = "auto"
                      \/ opp.type = S3
          IN /\ (auto /\ opp.risk_level = "low")
                => /\ pending_opportunities' =
                          Append(pending_opportunities, opp)
                   /\ events' = <<>>
             /\ ~(auto /\ opp.risk_level = "low")
                => /\ pending_opportunities' = pending_opportunities
                   /\ events' = <<[type |-> "opportunity_found", pid |-> 0,
                                   reason |-> ""]>>
             /\ \A k \in 1..Len(pending_opportunities') :
                   pending_opportunities'[k].type # S2B]_vars

\* A low-risk cross-exchange opportunity was queued under the auto mode;
\* then a low-risk basis-arbitrage opportunity was submitted under a pair
\* configuration whose s2b_execution_mode is auto, and was not queued.
C15_Witness ==
    /\ lastOp.op = "submit_opportunity"
    /\ lastOp.input.type = S2B
    /\ lastOp.input.risk_level = "low"
    /\ config.pair.s2b_execution_mode = "auto"
    /\ config.pair.s1_execution_mode = "auto"
    /\ Len(pending_opportunities) = 1
    /\ pending_opportunities[1].type = S1
    /\ pending_opportunities[1].risk_level = "low"
    /\ events = <<[type |-> "opportunity_found", pid |-> 0, reason |-> ""]>>

\* C16: the admission loop removes nothing from the queue and starts no
\* execute_opportunity while the paused flag is set, that is after
\* set_paused(true) returned and before set_paused(false) is called.
C16_PausedAdmitsNothing ==
    [][paused => /\ Len(pending_opportunities') >= Len(pending_opportunities)
                 /\ ~(loop_pc = "pop" /\ loop_pc' = "top")]_vars

\* C17: a step of the risk manager changes nothing of the positions table but
\* the status of the row it examines, sets it to emergency_close_pending
\* only, and never does so on a row that is closed or failed at that moment,
\* however its scan interleaves with close_position and with an execution
\* that fails.
C17_RiskManagerOnlyFlagsLivePositions ==
    [][(scan.todo # <<>> /\ scan'.todo = Tail(scan.todo))
       => /\ Len(positions') = Len(positions)
          /\ \A i \in 1..Len(positions) :
                \/ positions'[i] = positions[i]
                \/ /\ i = Head(scan.todo)
                   /\ positions'[i] =
                         [positions[i] EXCEPT
                             !.status = "emergency_close_pending"]
                   /\ positions[i].status \notin {"closed", "failed"}]_vars

\* C18 as stated: for an open directional position, a monitor tick attempts
\* a trailing-stop close (close_position followed by the trailing_stop
\* callback) if and only if the trailing flag was set at an earlier tick and
\* the current price has retraced from best_price, the most favourable price
\* since activation, by at least trailing_callback_pct.
C18_TrailingCloseIff ==
    [][lastOp'.op = "monitor_tick"
       => \A i \in 1..Len(positions) :
             (positions[i].strategy_type = S3 /\ positions[i].status = "open")
             => ((/\ \E k \in 1..Len(lastOp'.close_calls) :
                        lastOp'.close_calls[k] = i
                  /\ \E k \in 1..Len(events') :
                        events'[k] = [type |-> "trailing_stop", pid |-> i,
                                      reason |-> ""])
                 <=> (/\ positions[i].trailing_stop_activated
                      /\ Retraced(positions[i].direction,
                                  BestPrice(positions[i], lastOp'.input.price),
                                  lastOp'.input.price)))]_vars

\* C18, amended: the stop loss and the funding exit come first.  At a tick
\* where neither fires, the flag is set exactly when it was not set and
\* PnL% >= trailing_activation_pct (best_price becomes the current price and
\* nothing is closed at that tick); with the flag already set, best_price
\* moves to the current price when that is more favourable (lower for a
\* short, higher for a long) and close_position is attempted exactly when
\* the current price has retraced from that best_price by at least
\* trailing_callback_pct.  At a tick where the stop loss or the funding
\* exit fires, flag and best_price are left as they were.  The flag is
\* never cleared.
C18_TrailingAfterEarlierExits ==
    [][lastOp'.op = "monitor_tick"
       => \A i \in 1..Len(positions) :
             (positions[i].strategy_type = S3 /\ positions[i].status = "open")
             => LET p == positions[i]
                    q == positions'[i]
                    price == lastOp'.input.price
                    reached == /\ ~StopLossHit(p, price)
                               /\ ~FundingExit(p, lastOp'.input.rate)
                    closing == \E k \in 1..Len(lastOp'.close_calls) :
                                  lastOp'.close_calls[k] = i
                    best == IF p.direction = "short"
                            THEN Min(p.best_price, price)
                            ELSE -Min(-p.best_price, -price)
                IN /\ p.trailing_stop_activated => q.trailing_stop_activated
                   /\ ~reached
                      => /\ q.trailing_stop_activated
                               = p.trailing_stop_activated
                         /\ q.best_price = p.best_price
                   /\ (reached /\ ~p.trailing_stop_activated)
                      => /\ q.trailing_stop_activated
                               = (DirectionalDiff(p, price) * PctScale
                                      >= TrailingActivationPct * p.price)
                         /\ q.trailing_stop_activated => q.best_price = price
                         /\ ~closing
                   /\ (reached /\ p.trailing_stop_activated)
                      => /\ q.best_price = best
                         /\ closing
                            = (IF p.direction = "short"
                               THEN (price - best) * PctScale
                                        >= TrailingCallbackPct * best
                               ELSE (best - price) * PctScale
                                        >= TrailingCallbackPct * best)]_vars

\* A short entered at 100 whose flag was set at an earlier tick, whose best
\* price is 92, and for which the tick at 96 (a retracement of 4.3%) called
\* close_position after the trailing stop.
C18_Witness ==
    /\ lastOp.op = "monitor_tick"
    /\ lastOp.input = [price |-> 96, rate |-> 1]
    /\ Len(positions) = 1
    /\ positions[1].direction = "short"
    /\ positions[1].trailing_stop_activated
    /\ positions[1].best_price = 92
    /\ lastOp.close_calls = <<1>>
    /\ \E k \in 1..Len(events) :
          events[k] = [type |-> "trailing_stop", pid |-> 1, reason |-> ""]

\* C19: after a monitor tick the funding_collected of every open
\* single-venue position is, up to the write-back threshold of 0.0001, the
\* sum of size * rate over the distinct settlement instants after open_time
\* and up to now, each instant counted once with the rate of its newest
\* sample, the sign reversed for a directional long: the value is a
\* function of the persisted history, whatever earlier ticks wrote.
C19_FundingIsSumOverInstants ==
    [][(lastOp'.op = "monitor_tick" /\ UNCHANGED <<funding_rates, now>>)
       => \A i \in 1..Len(positions) :
             (positions[i].status = "open" /\ positions[i].strategy_type # S1)
             => LET p == positions[i]
                    sum == SumOver(
                        [t \in InstantsSince(p.exchange, p.open_time) |->
                            (IF p.strategy_type = S3 /\ p.direction = "long"
                             THEN -1 ELSE 1)
                            * p.position_size * NewestRate(p.exchange, t)],
                        InstantsSince(p.exchange, p.open_time))
                IN /\ positions'[i].funding_collected - sum <= WriteThreshold
                   /\ sum - positions'[i].funding_collected
                          <= WriteThreshold]_vars

\* C20: a reconciliation closes every open position of a venue it can query
\* for which the venue reports no live position of that side, and emits
\* position_auto_closed for it; it rewrites size and entry price of every
\* open position the venue reports with a different entry price or size,
\* and emits position_updated for it.
C20_ReconcileClosesAndUpdates ==
    [][lastOp'.op = "sync_positions"
       => \A i \in 1..Len(positions) :
             (/\ positions[i].status = "open"
              /\ positions[i].exchange \in Adapters)
             => /\ positions[i].direction \notin RealSides(lastOp'.input)
                   => /\ positions'[i].status = "closed"
                      /\ \E k \in 1..Len(events') :
                            events'[k] = [type |-> "position_auto_closed",
                                          pid |-> i, reason |-> ""]
                /\ (/\ positions[i].direction \in RealSides(lastOp'.input)
                    /\ \/ positions[i].position_size # RealContracts
                       \/ positions[i].entry_price # VenuePrice)
                   => /\ positions'[i].position_size = RealContracts
                      /\ positions'[i].entry_price = VenuePrice
                      /\ \E k \in 1..Len(events') :
                            events'[k] = [type |-> "position_updated",
                                          pid |-> i, reason |-> ""]]_vars

\* ------------------------------------------------------ configuration values
\* ConfigManager over the config table.  A Python value is its type and its
\* text: str(value) for a scalar, json.dumps(value) for a list or a dict.
PyValue(t, text) == [t |-> t, text |-> text]
None == PyValue("none", "None")
ConfigValues ==
    {PyValue("int", "100000"), PyValue("int", "20"),
     PyValue("bool", "True"), PyValue("bool", "False"),
     PyValue("str", "auto"), PyValue("str", "20"),
     PyValue("list", "[1, 2]"), PyValue("dict", "{\"a\": 1}")}

\* set: json.dumps for a dict or a list, str for everything else.  The text
\* is kept, the type is not.
ValueStr(value) == value.text

\* json.loads on the stored text; "fail" stands for JSONDecodeError.
JsonLoads(text) ==
    IF text \in {"100000", "20"} THEN PyValue("int", text)
    ELSE IF text = "true" THEN PyValue("bool", "True")
    ELSE IF text = "false" THEN PyValue("bool", "False")
    ELSE IF text = "null" THEN None
    ELSE IF text = "[1, 2]" THEN PyValue("list", text)
    ELSE IF text = "{\"a\": 1}" THEN PyValue("dict", text)
    ELSE PyValue("fail", text)

\* ConfigManager.get with default None
ConfigGet(cache, cache_key) ==
    IF cache[cache_key] = NoRow THEN None
    ELSE IF JsonLoads(cache[cache_key]).t = "fail"
    THEN PyValue("str", cache[cache_key])
    ELSE JsonLoads(cache[cache_key])

\* ConfigManager.get with a default
ConfigGetOr(cache, cache_key, default) ==
    IF cache[cache_key] = NoRow THEN default ELSE ConfigGet(cache, cache_key)

\* The truth value Python gives a value in "if value:".
Truthy(value) ==
    IF value.t = "none" THEN FALSE
    ELSE IF value.t = "bool" THEN value.text = "True"
    ELSE IF value.t = "int" THEN value.text # "0"
    ELSE IF value.t = "list" THEN value.text # "[]"
    ELSE IF value.t = "dict" THEN value.text # "{}"
    ELSE value.text # ""

\* "if self.config.get(category, 'enabled', default)"; a key the config
\* table of the model does not hold has no row.
StrategyEnabled(cache_key, default) ==
    IF cache_key \in ConfigKeys
    THEN Truthy(ConfigGetOr(config_cache, cache_key, default))
    ELSE Truthy(default)

\* ------------------------------------------- opportunity scan specification
\* One scan of the opportunity monitor over the market data of one symbol.
\* Rates, fees, bases and returns are in 1/100000; money in 1/100000 USDT.
MaxVenues == 2
VenueNames == {"binance", "okx", "bybit"}
TakerFee == 50             \* taker_fee 0.0005
MakerFee == 20             \* maker_fee 0.0002
FuturesDepth5 == 0         \* futures_depth_5 is never collected
\* What the collector holds for one venue; complete: every field a strategy
\* requires is present.
VenueData ==
    [exchange : VenueNames, complete : BOOLEAN,
     funding_rate : {-1000, 10, 80, 200, 6000},
     futures_ask : {100}, futures_bid : {100, 103}, spot_ask : {100}]
MarketData ==
    {m \in UNION {[1..n -> VenueData] : n \in 1..MaxVenues} :
        \A i, j \in 1..Len(m) : i # j => m[i].exchange # m[j].exchange}

Abs(x) == IF x < 0 THEN -x ELSE x

\* utils.calculator.estimate_slippage
EstimateSlippage(depth, trade_amount) ==
    IF 10 * trade_amount < depth THEN 0
    ELSE IF 2 * trade_amount < depth THEN trade_amount * 10
    ELSE trade_amount * 50

\* net_profit of calculate_cross_exchange_funding_profit
CrossExchangeFundingProfit(position_size, short_rate, long_rate, long_slippage, short_slippage) ==
    position_size * (short_rate - long_rate)
    - (2 * position_size * TakerFee + 2 * position_size * MakerFee
       + long_slippage + short_slippage)

\* net_profit of calculate_spot_futures_funding_profit
SpotFuturesFundingProfit(position_size, funding_rate) ==
    position_size * funding_rate
    - (2 * position_size * TakerFee + 2 * position_size * MakerFee)

\* net_profit of calculate_basis_arbitrage_profit
BasisArbitrageProfit(position_size, basis, funding_rate) ==
    position_size * Abs(basis)
    + position_size * funding_rate * EstimatedHoldPeriods
    - (2 * position_size * TakerFee + 2 * position_size * MakerFee)

Opportunity(type, exchange, long_exchange, short_exchange, position_size, net_profit) ==
    [type |-> type, exchange |-> exchange, long_exchange |-> long_exchange,
     short_exchange |-> short_exchange, position_size |-> position_size,
     expected_return |-> net_profit,
     expected_return_pct |-> net_profit \div position_size]

\* The body of the pair loop of
\* _calculate_cross_exchange_funding_opportunities.
CrossExchangePair(long_data, short_data) ==
    IF ~long_data.complete \/ ~short_data.complete THEN <<>>
    ELSE IF short_data.funding_rate - long_data.funding_rate < S1MinFundingDiff
    THEN <<>>
    ELSE IF (Abs(long_data.futures_ask - short_data.futures_bid) * 100000)
               \div long_data.futures_ask > MaxPriceDiff
    THEN <<>>
    ELSE LET slippage == EstimateSlippage(FuturesDepth5,
                             S1PositionSize \div long_data.futures_ask)
         IN <<Opportunity(S1, "", long_data.exchange, short_data.exchange,
                          S1PositionSize,
                          CrossExchangeFundingProfit(S1PositionSize,
                              short_data.funding_rate, long_data.funding_rate,
                              slippage, slippage))>>

\* for i, exchange_long in enumerate(exchanges):
\*     for exchange_short in exchanges[i+1:]
RECURSIVE CrossExchangeFrom(_, _, _)
CrossExchangeFrom(m, i, j) ==
    IF i > Len(m) THEN <<>>
    ELSE IF j > Len(m) THEN CrossExchangeFrom(m, i + 1, i + 2)
    ELSE CrossExchangePair(m[i], m[j]) \o CrossExchangeFrom(m, i, j + 1)

CalculateCrossExchangeFundingOpportunities(m) == CrossExchangeFrom(m, 1, 2)

Basis(data) == ((data.futures_bid - data.spot_ask) * 100000) \div data.spot_ask

\* The loop body of _calculate_spot_futures_funding_opportunities.
SpotFuturesVenue(data) ==
    IF ~data.complete THEN <<>>
    ELSE IF data.funding_rate < config.s2a_min_funding_rate THEN <<>>
    ELSE IF Abs(Basis(data)) > S2AMaxBasisDeviation THEN <<>>
    ELSE <<Opportunity(S2A, data.exchange, "", "", S2APositionSize,
                       SpotFuturesFundingProfit(S2APositionSize,
                                                data.funding_rate))>>

\* The loop body of _calculate_basis_arbitrage_opportunities.
BasisVenue(data, net_profit) ==
    IF ~data.complete THEN <<>>
    ELSE IF Basis(data) < S2BMinBasis THEN <<>>
    ELSE IF net_profit \div S2BPositionSize <= 0 THEN <<>>
    ELSE <<Opportunity(S2B, data.exchange, "", "", S2BPositionSize,
                       net_profit)>>

\* The directional opportunity of a venue whose funding pays
\* net_return_pct over the holding days, fees deducted.
DirectionalOpportunity(data, net_return_pct) ==
    [Opportunity(S3, data.exchange, "", "", S3PositionSize, 0)
        EXCEPT !.expected_return = (S3PositionSize * net_return_pct) \div 100,
               !.expected_return_pct = net_return_pct]

\* The loop body of _calculate_directional_opportunities, check_basis on.
\* The venues of VenueData quote the spot at one price (spot_bid = spot_ask).
DirectionalVenue(data) ==
    IF ~data.complete THEN <<>>
    ELSE IF Abs(data.funding_rate) < S3MinFundingRate THEN <<>>
    ELSE IF data.funding_rate > 0 /\ data.futures_bid <= data.spot_ask
    THEN <<>>
    ELSE IF data.funding_rate <= 0 /\ data.futures_ask >= data.spot_ask
    THEN <<>>
    ELSE <<DirectionalOpportunity(data,
               Abs(data.funding_rate) * TimesPerDay * HoldingDays
                   - (TakerFee + MakerFee))>>

RECURSIVE PerVenue(_, _)
PerVenue(m, type) ==
    IF m = <<>> THEN <<>>
    ELSE (IF type = S2A THEN SpotFuturesVenue(Head(m))
          ELSE IF type = S3 THEN DirectionalVenue(Head(m))
          ELSE BasisVenue(Head(m),
                          BasisArbitrageProfit(S2BPositionSize, Basis(Head(m)),
                                               Head(m).funding_rate)))
         \o PerVenue(Tail(m), type)

\* sorted(new_opportunities, key=expected_return_pct, reverse=True): stable.
RECURSIVE SortedByReturn(_)
SortedByReturn(opps) ==
    IF opps = <<>> THEN <<>>
    ELSE LET best == CHOOSE i \in 1..Len(opps) :
                         /\ \A j \in 1..Len(opps) :
                               opps[j].expected_return_pct
                                   <= opps[i].expected_return_pct
                         /\ \A j \in 1..(i - 1) :
                               opps[j].expected_return_pct
                                   < opps[i].expected_return_pct
         IN <<opps[best]>>
            \o SortedByReturn(SubSeq(opps, 1, best - 1)
                              \o SubSeq(opps, best + 1, Len(opps)))

\* The opportunities of one symbol, each strategy behind its enabled key.
NewOpportunities(m) ==
    (IF StrategyEnabled("strategy1.enabled", PyValue("bool", "True"))
     THEN CalculateCrossExchangeFundingOpportunities(m) ELSE <<>>)
    \o (IF StrategyEnabled("strategy2a.enabled", PyValue("bool", "True"))
        THEN PerVenue(m, S2A) ELSE <<>>)
    \o (IF StrategyEnabled("strategy2b.enabled", PyValue("bool", "True"))
        THEN PerVenue(m, S2B) ELSE <<>>)
    \o (IF StrategyEnabled("strategy3.enabled", PyValue("bool", "False"))
        THEN PerVenue(m, S3) ELSE <<>>)

\* OpportunityMonitor._scan_opportunities once market data was found.
ScanOpportunitiesOf(m) == SortedByReturn(NewOpportunities(m))

\* The call of the registered listeners with the list.
OpportunityCallback(list) ==
    Event("opportunity_callback", 0) @@ [opportunities |-> list]

MonitorConfigs ==
    {DefaultConfig, [DefaultConfig EXCEPT !.s2a_min_funding_rate = 50]}

InitMonitor ==
    /\ now = 0
    /\ funding_rates = <<>>
    /\ orderbook = NoBook
    /\ market_data \in MarketData
    /\ opportunities = <<>>
    /\ enable_trading = FALSE
    /\ schema = "extended"
    /\ positions = <<>>
    /\ orderLog = <<>>
    /\ events = <<>>
    /\ lastOp = Outcome("init", 0, FALSE)
    /\ config \in MonitorConfigs
    /\ pending_opportunities = <<>>
    /\ paused = FALSE
    /\ loop_pc = "top"
    /\ scan = NoScan
    /\ inflight = NoExecution
    /\ config_table = EmptyConfig
    /\ config_cache = EmptyConfig
    /\ collector = IdleCollector
    /\ executing = NoCalls
    /\ market_prices = <<>>
    /\ db_call = NoDbCall
    /\ components = NotStarted
    /\ loops = NoLoops

\* The market data a scan works on: the collector's, else the fallback
\* loaded from the database.
ScannedData == IF market_data # <<>> THEN market_data ELSE market_prices

Scanned(data, list) ==
    /\ IF data = <<>>
       THEN UNCHANGED opportunities /\ events' = <<>>
       ELSE opportunities' = list /\ events' = <<OpportunityCallback(list)>>
    /\ lastOp' = [Outcome("scan_opportunities", 0, data # <<>>)
                     EXCEPT !.input = data]

\* OpportunityMonitor._scan_opportunities
ScanOpportunitiesTick ==
    /\ Scanned(ScannedData, ScanOpportunitiesOf(ScannedData))
    /\ UNCHANGED <<setup, positions, orderLog, admission, threads,
                   funding_rates, now, orderbook, market_data, collector,
                   market_prices>>

NextMonitor == ScanOpportunitiesTick

SpecMonitor == InitMonitor /\ [][NextMonitor]_vars

\* C23: after a scan the opportunity list holds no opportunity whose expected
\* net profit is zero or negative, whatever its strategy.
C23_NoUnprofitableOpportunity ==
    lastOp.op = "scan_opportunities"
    => \A k \in 1..Len(opportunities) : opportunities[k].expected_return > 0

\* C24: for every two venues with complete futures data whose funding rates
\* differ by more than min_funding_diff and whose prices are within
\* max_price_diff, the scan emits an S1 opportunity long on the lower-rate
\* venue and short on the higher-rate venue, in whatever order the snapshot
\* holds the two venues.
C24_EveryPairEitherOrder ==
    lastOp.op = "scan_opportunities"
    => \A i, j \in 1..Len(market_data) :
          (/\ market_data[i].complete /\ market_data[j].complete
           /\ market_data[j].funding_rate - market_data[i].funding_rate
                 > S1MinFundingDiff
           /\ (Abs(market_data[i].futures_ask - market_data[j].futures_bid)
                  * 100000) \div market_data[i].futures_ask <= MaxPriceDiff)
          => \E k \in 1..Len(opportunities) :
                /\ opportunities[k].type = S1
                /\ opportunities[k].long_exchange = market_data[i].exchange
                /\ opportunities[k].short_exchange = market_data[j].exchange

\* ----------------------------------------------- configuration specification
\* set, set_default and a restart of the ConfigManager, in any order.
ConfigOp(op, cache_key, value) ==
    [Outcome(op, 0, TRUE) EXCEPT !.input = [key |-> cache_key, value |-> value]]

\* ConfigManager.set: the upsert of db.set_config, then the cache.
ConfigStore(op, cache_key, value) ==
    /\ config_table' = [config_table EXCEPT ![cache_key] = ValueStr(value)]
    /\ config_cache' = [config_cache EXCEPT ![cache_key] = ValueStr(value)]
    /\ lastOp' = ConfigOp(op, cache_key, value)

ConfigSet ==
    /\ \E cache_key \in ConfigKeys, value \in ConfigValues :
          ConfigStore("config_set", cache_key, value)
    /\ UNCHANGED <<enable_trading, schema, config, positions, orderLog, events,
                   admission, threads, market>>

\* A set_default that stores without looking at the cache.
ConfigSetDefaultOverwriting(cache_key, value) ==
    ConfigStore("config_set_default", cache_key, value)

\* ConfigManager.set_default
ConfigSetDefaultOf(cache_key, value) ==
    IF config_cache[cache_key] # NoRow
    THEN /\ lastOp' = ConfigOp("config_set_default", cache_key, value)
         /\ UNCHANGED <<config_table, config_cache>>
    ELSE ConfigStore("config_set_default", cache_key, value)

ConfigSetDefault ==
    /\ \E cache_key \in ConfigKeys, value \in ConfigValues :
          ConfigSetDefaultOf(cache_key, value)
    /\ UNCHANGED <<enable_trading, schema, config, positions, orderLog, events,
                   admission, threads, market>>

\* A new ConfigManager over the same database: _load_all_configs.
ConfigRestart ==
    /\ config_cache' = config_table
    /\ lastOp' = Outcome("config_restart", 0, TRUE)
    /\ UNCHANGED <<enable_trading, schema, config, config_table, positions,
                   orderLog, events, admission, threads, market>>

NextConfig == ConfigSet \/ ConfigSetDefault \/ ConfigRestart

SpecConfig == Init /\ [][NextConfig]_vars

\* C25: set_default on a key that has a value changes neither what get
\* returns for it nor its row, after any sequence of set, set_default and
\* restarts.
C25_SetDefaultPreserves ==
    [][(/\ lastOp'.op = "config_set_default"
        /\ ConfigGet(config_cache, lastOp'.input.key) # None)
       => /\ ConfigGet(config_cache', lastOp'.input.key)
               = ConfigGet(config_cache, lastOp'.input.key)
          /\ config_table' = config_table]_vars

\* C25 witness: set_default(total_capital, 100000) was called on a manager
\* whose key holds the 20 written by set, and get still returns 20.
C25_Witness ==
    /\ lastOp.op = "config_set_default"
    /\ lastOp.input.key = "global.total_capital"
    /\ lastOp.input.value = PyValue("int", "100000")
    /\ ConfigGet(config_cache, "global.total_capital") = PyValue("int", "20")
    /\ config_table["global.total_capital"] = "20"

\* C26: get after set(v) returns v itself for an integer, a boolean, a list
\* or a dict, in the same ConfigManager and after a restart.
C26_GetReturnsWhatSetWrote ==
    [][(lastOp'.op = "config_set" /\ lastOp'.input.value.t # "str")
       => /\ ConfigGet(config_cache', lastOp'.input.key) = lastOp'.input.value
          /\ ConfigGet(config_table', lastOp'.input.key)
               = lastOp'.input.value]_vars

\* -------------------------------------------- exchange reload specification
\* A collection loop iterating self.exchanges.items() while the HTTP thread
\* runs reload_exchanges.  The loops take no snapshot and no lock; a dict
\* iterator raises RuntimeError when the size of the dict differs from the
\* size at its creation and otherwise yields the entry at its position.
\* "for exchange_name, exchange in self.exchanges.items()": the iterator is
\* created.
CollectBegin ==
    /\ ~collector.iteration.active
    /\ collector' = [collector EXCEPT !.iteration =
                        [active |-> TRUE, di_pos |-> 1,
                         di_used |-> Len(collector.exchanges), seen |-> <<>>,
                         began |-> collector.exchanges, raised |-> FALSE]]
    /\ lastOp' = Outcome("collect_begin", 0, TRUE)
    /\ UNCHANGED <<setup, positions, orderLog, events, admission, threads,
                   funding_rates, now, orderbook, market_data, opportunities,
                   market_prices>>

\* The iterator is asked for the next venue; the body then works with the
\* handle it got.
IterNext(c, it) ==
    IF Len(c.exchanges) # it.di_used
    THEN [it EXCEPT !.active = FALSE, !.raised = TRUE]
    ELSE IF it.di_pos > Len(c.exchanges)
    THEN [it EXCEPT !.active = FALSE]
    ELSE [it EXCEPT !.seen = Append(@, c.exchanges[it.di_pos]),
                    !.di_pos = @ + 1]

CollectNext ==
    /\ collector.iteration.active
    /\ collector' = [collector EXCEPT
                        !.iteration = IterNext(collector, collector.iteration)]
    /\ lastOp' = Outcome("collect_next", 0, TRUE)
    /\ UNCHANGED <<setup, positions, orderLog, events, admission, threads,
                   funding_rates, now, orderbook, market_data, opportunities,
                   market_prices>>

\* reload_exchanges up to and including self.exchanges.clear()
ReloadClear ==
    /\ ~collector.loading
    /\ collector.load < MaxReloads
    /\ collector' = [collector EXCEPT !.exchanges = <<>>, !.load = @ + 1,
                                      !.loading = TRUE]
    /\ lastOp' = Outcome("reload_exchanges", 0, TRUE)
    /\ UNCHANGED <<setup, positions, orderLog, events, admission, threads,
                   funding_rates, now, orderbook, market_data, opportunities,
                   market_prices>>

\* _init_exchanges: one more account gets its adapter; after the last one
\* reload_exchanges returns.
ReloadConnect ==
    /\ collector.loading
    /\ collector' =
          [collector EXCEPT
             !.exchanges = Append(@, Handle(ExchangeAccounts[Len(@) + 1],
                                            collector.load)),
             !.loading = Len(collector.exchanges) + 1 < MaxExchanges]
    /\ lastOp' = Outcome("init_exchanges", 0, TRUE)
    /\ UNCHANGED <<setup, positions, orderLog, events, admission, threads,
                   funding_rates, now, orderbook, market_data, opportunities,
                   market_prices>>

NextReload == CollectBegin \/ CollectNext \/ ReloadClear \/ ReloadConnect

SpecReload == Init /\ [][NextReload]_vars

\* C27: an iteration of a collection loop never raises and works only with
\* handles of the set of exchanges it started with, although
\* reload_exchanges runs meanwhile; once it has ended without a reload in
\* progress at its start, it has visited exactly that set.
C27_IterationKeepsItsSnapshot ==
    /\ ~collector.iteration.raised
    /\ \A k \in 1..Len(collector.iteration.seen) :
          /\ k <= Len(collector.iteration.began)
          /\ collector.iteration.seen[k] = collector.iteration.began[k]

\* ------------------------------------------------ depth check specification
\* create_order called directly with the order book the venue returns for
\* get_order_book(symbol, limit=20): levels <<price, amount>>, asks by rising
\* and bids by falling price.
MaxLevels == 2
BookLevels == {<<price, amount>> : price \in {100, 102}, amount \in {1, 4, 8}}
BookSide(side) ==
    {o \in UNION {[1..n -> BookLevels] : n \in 0..MaxLevels} :
        \A k \in 1..(Len(o) - 1) :
            IF side = "buy" THEN o[k][1] <= o[k + 1][1]
            ELSE o[k][1] >= o[k + 1][1]}
DepthAmounts == {5, 10}
\* A book: one side of up to MaxLevels levels, the other empty or one level.
OrderBooks ==
    UNION {{[asks |-> side, bids |-> other], [asks |-> other, bids |-> side]} :
              side \in BookSide("buy") \cup BookSide("sell"),
              other \in {<<>>, <<<<100, 1>>>>}}

\* The loop "for price, order_amount in orders" of _check_order_book_depth.
RECURSIVE FillFromBook(_, _, _, _)
FillFromBook(orders, amount, cumulative_amount, total_cost) ==
    IF orders = <<>> \/ cumulative_amount >= amount
    THEN [cumulative_amount |-> cumulative_amount, total_cost |-> total_cost]
    ELSE LET fill_amount == Min(Head(orders)[2], amount - cumulative_amount)
         IN FillFromBook(Tail(orders), amount,
                         cumulative_amount + fill_amount,
                         total_cost + fill_amount * Head(orders)[1])

\* A depth-check reply; slippage_pct in 1/10000.
DepthReply(sufficient, slippage_pct) ==
    [sufficient |-> sufficient, slippage_pct |-> slippage_pct]

\* A depth check without the 80% test.
DepthOfFillUnchecked(best_price, amount, f) == DepthReply(TRUE, 0)

DepthOfFill(best_price, amount, f) ==
    IF 10 * f.cumulative_amount < 8 * amount THEN DepthReply(FALSE, 0)
    ELSE IF f.cumulative_amount > 0 /\ best_price > 0
    THEN LET at_best == best_price * f.cumulative_amount
             diff == f.total_cost - at_best
         IN DepthReply(TRUE, ((IF diff < 0 THEN -diff ELSE diff) * 10000)
                                \div at_best)
    ELSE DepthReply(TRUE, 0)

\* _check_order_book_depth on the book the adapter returned.
DepthCheck(book, side, amount) ==
    IF book.bids = <<>> \/ book.asks = <<>>
    THEN DepthReply(FALSE, 0)
    ELSE LET orders == IF side = "buy" THEN book.asks ELSE book.bids
         IN DepthOfFill(orders[1][1], amount, FillFromBook(orders, amount, 0, 0))

\* The venue scenario of a call made while the venue's book is book: the
\* order, if it is submitted, is accepted at once and fills.
DepthEnv(book, side, amount) ==
    [IdleEnv EXCEPT !.depth = DepthCheck(book, side, amount).sufficient]

InitDepth ==
    /\ now = 0
    /\ funding_rates = <<>>
    /\ orderbook \in OrderBooks
    /\ enable_trading \in BOOLEAN
    /\ schema \in Schemas
    /\ positions = <<>>
    /\ orderLog = <<>>
    /\ events = <<>>
    /\ lastOp = Outcome("init", 0, FALSE)
    /\ config = DefaultConfig
    /\ pending_opportunities = <<>>
    /\ paused = FALSE
    /\ loop_pc = "top"
    /\ scan = NoScan
    /\ inflight = NoExecution
    /\ market_data = <<>>
    /\ opportunities = <<>>
    /\ config_table = EmptyConfig
    /\ config_cache = EmptyConfig
    /\ collector = IdleCollector
    /\ executing = NoCalls
    /\ market_prices = <<>>
    /\ db_call = NoDbCall
    /\ components = NotStarted
    /\ loops = NoLoops

DepthOrdered(c) ==
    /\ orderLog' = <<c>>
    /\ lastOp' = Outcome("create_order", 1, Placed(c))

DepthCreateOrder ==
    /\ \E side \in {"buy", "sell"}, amount \in DepthAmounts,
          strategy_type \in {S2A, "rollback"}, check_depth \in BOOLEAN :
          DepthOrdered(Call(Args("binance", "BTC/USDT", side, amount, TRUE,
                                 1, strategy_type, check_depth),
                            DepthEnv(orderbook, side, amount)))
    /\ UNCHANGED <<setup, positions, events, admission, threads, market>>

NextDepth == DepthCreateOrder

SpecDepth == InitDepth /\ [][NextDepth]_vars

\* The amount resting on the side of the book an order would take.
RECURSIVE Available(_)
Available(orders) ==
    IF orders = <<>> THEN 0 ELSE Head(orders)[2] + Available(Tail(orders))

Taken(book, side) ==
    IF side = "buy" THEN book.asks ELSE book.bids

\* The depth check refused the call: no attempt of the retry loop ran.
DepthRejected(c) == c.res.attempts = 0 /\ ~Placed(c)

\* C22: in live mode a depth-checked order that is no rollback is refused,
\* nothing being submitted, when less than 80% of its amount rests on the
\* opposite side of the book; a rollback and a simulated order are never
\* refused by the depth check, and neither is an order whose book is deep
\* enough but whose estimated slippage exceeds 1%.
C22_DepthCheck ==
    (lastOp.op = "create_order" /\ Len(orderLog) = 1)
    => LET c == orderLog[1]
           thin == 10 * Available(Taken(orderbook, c.args.side))
                      < 8 * c.args.amount
           checked == /\ enable_trading /\ c.args.check_depth
                      /\ c.args.strategy_type # "rollback"
       IN /\ (checked /\ thin)
             => (~Placed(c) /\ c.res.submits = 0)
          /\ (~enable_trading \/ c.args.strategy_type = "rollback")
             => ~DepthRejected(c)
          /\ (/\ checked /\ ~thin
              /\ orderbook.bids # <<>> /\ orderbook.asks # <<>>)
             => ~DepthRejected(c)

\* C22 witness: a live depth-checked order was placed although the estimated
\* slippage of its book exceeds 1%.
C22_Witness ==
    /\ lastOp.op = "create_order" /\ Len(orderLog) = 1
    /\ enable_trading /\ orderLog[1].args.check_depth
    /\ orderLog[1].args.strategy_type # "rollback"
    /\ Placed(orderLog[1])
    /\ DepthCheck(orderbook, orderLog[1].args.side,
                  orderLog[1].args.amount).slippage_pct > 100

\* C21: at a reconciliation every open S1 position is checked against its
\* long_exchange: the venue reports the long leg, or the reconciler changes
\* the row (the same is claimed of the short_exchange).
C21_ReconcileChecksS1 ==
    [][(lastOp'.op = "sync_positions" /\ PositionsHasSyncColumns)
       => \A i \in 1..Len(positions) :
             (/\ positions[i].status = "open"
              /\ positions[i].strategy_type = S1
              /\ positions[i].long_exchange \in Adapters)
             => \/ "long" \in RealSides(lastOp'.input)
                \/ positions'[i] # positions[i]]_vars

\* C29: a reconciliation whose fetch of the venue's positions failed changes
\* no row of the positions table.
C29_FetchErrorChangesNothing ==
    [][(lastOp'.op = "sync_positions" /\ lastOp'.input.error)
       => positions' = positions]_vars

\* C30: a reconciliation that fetched the venue's positions closes an open
\* row only if the venue reports no live position of the row's side, the
\* side of an S2A or S2B row being its short futures leg.
C30_ClosesOnlyWhenVenueHasNone ==
    [][(lastOp'.op = "sync_positions" /\ ~lastOp'.input.error)
       => \A i \in 1..Len(positions) :
             (positions[i].status = "open" /\ positions'[i].status = "closed")
             => (IF positions[i].strategy_type \in {S2A, S2B} THEN "short"
                 ELSE positions[i].direction) \notin lastOp'.input.sides]_vars

\* C28: close_position called for a row whose status is closed or failed
\* submits no order to the venue, emits no position_closed and leaves the row
\* unchanged.
C28_CloseOnlyLivePositions ==
    [][(/\ lastOp'.op = "close_position"
        /\ lastOp'.pid \in 1..Len(positions)
        /\ positions[lastOp'.pid].status \in {"closed", "failed"})
       => /\ \A k \in 1..Len(orderLog') : orderLog'[k].res.submits = 0
          /\ \A k \in 1..Len(events') : events'[k].type # "position_closed"
          /\ positions' = positions]_vars

\* C31: within one create_order call in live mode the venue accepts at most
\* one order: no further attempt is made once the venue has accepted one, so a
\* failure while the Order row is written never submits the order again.
C31_AtMostOneAcceptedPerCall ==
    \A k \in 1..Len(orderLog) :
        enable_trading => orderLog[k].res.accepted <= 1

OneSlotCapital == 250
RaceConfigs ==
    {[DefaultConfig EXCEPT !.max_positions = 1],
     [DefaultConfig EXCEPT !.total_capital = OneSlotCapital]}

InitRace ==
    /\ enable_trading \in BOOLEAN
    /\ schema \in Schemas
    /\ now = 0
    /\ positions = <<>>
    /\ orderLog = <<>>
    /\ events = <<>>
    /\ lastOp = Outcome("init", 0, FALSE)
    /\ config \in RaceConfigs
    /\ pending_opportunities = <<>>
    /\ paused = FALSE
    /\ loop_pc = "top"
    /\ scan = NoScan
    /\ inflight = NoExecution
    /\ funding_rates = <<>>
    /\ orderbook = NoBook
    /\ market_data = <<>>
    /\ opportunities = <<>>
    /\ config_table = EmptyConfig
    /\ config_cache = EmptyConfig
    /\ collector = IdleCollector
    /\ executing = NoCalls
    /\ market_prices = <<>>
    /\ db_call = NoDbCall
    /\ components = NotStarted
    /\ loops = NoLoops

Checked(t, opp, risk_check) ==
    /\ executing' = [executing EXCEPT ![t] = [pc |-> "checked", opp |-> opp, risk_check |-> risk_check]]
    /\ lastOp' = [Outcome("check_pre_trade_risk", 0, risk_check.passed)
                     EXCEPT !.input = opp]

\* execute_opportunity up to the return of check_pre_trade_risk, which reads
\* the positions table as it stands.
ExecuteCheck ==
    /\ \E t \in Callers, opp \in ScanOpportunities :
          /\ executing[t].pc = "idle"
          /\ Checked(t, opp, CheckPreTradeRisk(opp))
    /\ UNCHANGED <<setup, positions, orderLog, events, admission, scan,
                   inflight, db_call, lifecycle, market>>

Dispatched(t, opp, r) ==
    /\ Executed(opp, r)
    /\ executing' = [executing EXCEPT ![t] = [pc |-> "returned", opp |-> opp, success |-> r.success]]

\* execute_opportunity from the test of risk_check['passed'] to its return.
ExecuteDispatch ==
    /\ \E t \in Callers, eA \in FirstLeg(SysLegEnvs) :
       \E eB \in NextLeg(SysLegEnvs, eA) :
       \E eR \in RollbackLeg(SysLegEnvs, eA, eB) :
          /\ executing[t].pc = "checked"
          /\ Dispatched(t, executing[t].opp,
                        Dispatch(executing[t].opp, executing[t].risk_check,
                                 eA, eB, eR))
    /\ UNCHANGED <<setup, admission, scan, inflight, db_call, lifecycle, market>>

NextRace == ExecuteCheck \/ ExecuteDispatch

SpecRace == InitRace /\ [][NextRace]_vars

\* C32: the pre-trade risk check and the insertion of the position are
\* atomic with respect to other executions: with room for one position only,
\* two execute_opportunity calls running concurrently never both open one.
C32_OneSlotOnePosition == Cardinality(OpenIds) <= 1

\* The stable id the opportunity monitor gives an opportunity: strategy,
\* symbol and venue(s), and the direction for the directional strategy.
StableId(opp) ==
    IF opp.type = S1
    THEN <<"s1", opp.symbol, opp.long_exchange, opp.short_exchange>>
    ELSE IF opp.type = S2A THEN <<"s2a", opp.symbol, opp.exchange>>
    ELSE IF opp.type = S2B THEN <<"s2b", opp.symbol, opp.exchange>>
    ELSE <<"s3", opp.symbol, opp.exchange, opp.direction>>

\* C33: the pending queue holds at most one entry per stable opportunity id:
\* an opportunity reported again while its earlier submission is still queued
\* is not queued a second time.
C33_OnePendingEntryPerId ==
    \A i, j \in 1..Len(pending_opportunities) :
        i # j => StableId(pending_opportunities[i])
                    # StableId(pending_opportunities[j])

\* -------------------------------------------- opportunity list specification
\* Scans interleaved with what changes their inputs: the collector's first
\* prices, the ageing of the rows the fallback loads, and writes of
\* strategy3.enabled.
ListData ==
    {m \in MarketData :
        /\ Len(m) <= 2
        /\ \A i \in 1..Len(m) :
              /\ m[i].exchange = <<"binance", "okx">>[i]
              /\ m[i].complete
              /\ m[i].funding_rate \in {200, 6000}}

InitList ==
    /\ enable_trading = FALSE
    /\ schema = "extended"
    /\ now = 0
    /\ positions = <<>>
    /\ orderLog = <<>>
    /\ events = <<>>
    /\ lastOp = Outcome("init", 0, FALSE)
    /\ config = DefaultConfig
    /\ pending_opportunities = <<>>
    /\ paused = FALSE
    /\ loop_pc = "top"
    /\ scan = NoScan
    /\ inflight = NoExecution
    /\ funding_rates = <<>>
    /\ orderbook = NoBook
    /\ market_data = <<>>
    /\ market_prices \in ListData \cup {<<>>}
    /\ opportunities = <<>>
    /\ config_table = EmptyConfig
    /\ config_cache = EmptyConfig
    /\ collector = IdleCollector
    /\ executing = NoCalls
    /\ db_call = NoDbCall
    /\ components = NotStarted
    /\ loops = NoLoops

\* _collect_prices: the collector's market data gets its entries, which are
\* also written to market_prices; the entries are never removed.
CollectPrices ==
    /\ market_data = <<>>
    /\ \E m \in ListData : market_data' = m /\ market_prices' = m
    /\ lastOp' = Outcome("collect_prices", 0, TRUE)
    /\ UNCHANGED <<setup, positions, orderLog, events, admission, threads,
                   funding_rates, now, orderbook, opportunities, collector>>

\* The newest rows of market_prices become older than max_age_seconds.
PricesExpire ==
    /\ market_prices # <<>>
    /\ market_prices' = <<>>
    /\ lastOp' = Outcome("prices_expire", 0, TRUE)
    /\ UNCHANGED <<setup, positions, orderLog, events, admission, threads,
                   funding_rates, now, orderbook, market_data, opportunities,
                   collector>>

EnabledValues == {PyValue("bool", "True"), PyValue("bool", "False")}

\* ConfigManager.set('strategy3', 'enabled', value)
SetEnabled ==
    /\ \E value \in EnabledValues :
          ConfigStore("config_set", "strategy3.enabled", value)
    /\ UNCHANGED <<enable_trading, schema, config, positions, orderLog, events,
                   admission, threads, market>>

\* ConfigManager.set_default('strategy3', 'enabled', value)
SetDefaultEnabled ==
    /\ \E value \in EnabledValues :
          ConfigSetDefaultOf("strategy3.enabled", value)
    /\ UNCHANGED <<enable_trading, schema, config, positions, orderLog, events,
                   admission, threads, market>>

NextList ==
    \/ ScanOpportunitiesTick
    \/ CollectPrices
    \/ PricesExpire
    \/ SetEnabled
    \/ SetDefaultEnabled

SpecList == InitList /\ [][NextList]_vars

\* C34: after strategy3.enabled has been written as False through set or
\* set_default, and until it is written as True, no scan emits an opportunity
\* of the directional strategy.
C34_DisabledStrategyEmitsNothing ==
    (/\ lastOp.op = "scan_opportunities"
     /\ lastOp.success
     /\ config_cache["strategy3.enabled"] = ValueStr(PyValue("bool", "False")))
    => \A k \in 1..Len(opportunities) : opportunities[k].type # S3

\* C37: every scan replaces the whole opportunity list with the result of
\* that scan, sorted by expected_return_pct in descending order, and notifies
\* the listeners with it; after a scan that found no market data (empty
\* snapshot and empty fallback) the list holds no opportunity.
C37_ScanReplacesList ==
    [][lastOp'.op = "scan_opportunities"
       => /\ (ScannedData # <<>>) =>
                /\ opportunities' = ScanOpportunitiesOf(ScannedData)
                /\ \A k \in 1..(Len(opportunities') - 1) :
                      opportunities'[k].expected_return_pct
                          >= opportunities'[k + 1].expected_return_pct
                /\ events' = <<OpportunityCallback(opportunities')>>
          /\ (ScannedData = <<>>) => (opportunities' = <<>>)]_vars

\* C35: in one check of an open directional position the exit rules are
\* evaluated in the order stop loss, funding flip, trailing stop, and at most
\* one close is attempted.  When the stop loss is hit the close is attempted
\* and risk_alert is emitted, and neither later rule acts: no strategy_exit,
\* no trailing_stop event, the trailing flag and the best price unchanged.
\* When only the funding flip holds the close is attempted with
\* strategy_exit and the trailing rule does not act.  Otherwise neither
\* risk_alert nor strategy_exit is emitted and a close comes with a
\* trailing_stop event.
C35_ExitRulesInOrder ==
    [][lastOp'.op = "monitor_tick"
       => \A i \in 1..Len(positions) :
             (/\ positions[i].strategy_type = S3
              /\ positions[i].status = "open"
              /\ positions[i].price > 0)
             => LET p == positions[i]
                    q == positions'[i]
                    stop == StopLossHit(p, lastOp'.input.price)
                    flip == FundingExit(p, lastOp'.input.rate)
                    closes == Cardinality({k \in 1..Len(lastOp'.close_calls) :
                                              lastOp'.close_calls[k] = i})
                    emitted == {events'[k].type : k \in
                                   {n \in 1..Len(events') : events'[n].pid = i}}
                    untouched == /\ q.trailing_stop_activated
                                       = p.trailing_stop_activated
                                 /\ q.best_price = p.best_price
                IN /\ closes <= 1
                   /\ stop => /\ closes = 1
                              /\ "risk_alert" \in emitted
                              /\ "strategy_exit" \notin emitted
                              /\ "trailing_stop" \notin emitted
                              /\ untouched
                   /\ (~stop /\ flip)
                      => /\ closes = 1
                         /\ "strategy_exit" \in emitted
                         /\ "risk_alert" \notin emitted
                         /\ "trailing_stop" \notin emitted
                         /\ untouched
                   /\ (~stop /\ ~flip)
                      => /\ "risk_alert" \notin emitted
                         /\ "strategy_exit" \notin emitted
                         /\ closes = 1 => "trailing_stop" \in emitted]_vars

\* A short entered at 100 and checked at 105 with the funding rate flipped
\* as well: the stop loss closed it and risk_alert was emitted.
C35_Witness ==
    /\ lastOp.op = "monitor_tick"
    /\ lastOp.input.price = 105
    /\ lastOp.input.rate <= 0
    /\ Len(positions) = 1
    /\ positions[1].direction = "short"
    /\ lastOp.close_calls = <<1>>
    /\ \E k \in 1..Len(events) :
          events[k].type = "risk_alert" /\ events[k].pid = 1

\* ------------------------------------------------- risk scan specification
\* _check_all_positions applied to every positions table of one or two rows
\* of size 1000 whose pnl lies on, between and beyond the three thresholds.
ScanPnls == {-20, -15, -12, -10, -7, -5, 0, 10}
ScanRows ==
    {RiskRow(1000, pnl, status) :
        pnl \in ScanPnls, status \in {"open", "closed"}}
ScanTables ==
    {<<r>> : r \in ScanRows} \cup {<<r1, r2>> : r1 \in ScanRows, r2 \in ScanRows}

InitRiskScan ==
    /\ now = 0
    /\ funding_rates = <<>>
    /\ enable_trading = FALSE
    /\ schema = "extended"
    /\ positions \in ScanTables
    /\ orderLog = <<>>
    /\ events = <<>>
    /\ lastOp = Outcome("init", 0, FALSE)
    /\ config = DefaultConfig
    /\ pending_opportunities = <<>>
    /\ paused = FALSE
    /\ loop_pc = "top"
    /\ scan = NoScan
    /\ inflight = NoExecution
    /\ orderbook = NoBook
    /\ market_data = <<>>
    /\ opportunities = <<>>
    /\ config_table = EmptyConfig
    /\ config_cache = EmptyConfig
    /\ collector = IdleCollector
    /\ executing = NoCalls
    /\ market_prices = <<>>
    /\ db_call = NoDbCall
    /\ components = NotStarted
    /\ loops = NoLoops

NextRiskScan == RiskScan

SpecRiskScan == InitRiskScan /\ [][NextRiskScan]_vars

\* C36: in one risk-monitor scan each open position yields at most one risk
\* event, of the highest severity whose threshold its pnl_pct = current_pnl /
\* size is strictly below (emergency, else critical, else warning, else no
\* event), and its status is changed, to emergency_close_pending, only in
\* the emergency case; a position that is not open yields nothing.
C36_OneEventOfHighestSeverity ==
    [][lastOp'.op = "risk_scan"
       => \A i \in 1..Len(positions) :
             LET p == positions[i]
                 below(threshold) ==
                     p.current_pnl * PctScale < -threshold * p.position_size
                 severity == IF below(EmergencyThreshold) THEN "emergency"
                             ELSE IF below(CriticalThreshold) THEN "critical"
                             ELSE IF below(WarningThreshold) THEN "warning"
                             ELSE "none"
                 raised == {k \in 1..Len(events') : events'[k].pid = i}
             IN IF p.status = "open"
                THEN /\ Cardinality(raised) <= 1
                     /\ (raised = {}) = (severity = "none")
                     /\ \A k \in raised : events'[k].type = severity
                     /\ positions'[i] =
                           IF severity = "emergency"
                           THEN [p EXCEPT !.status = "emergency_close_pending"]
                           ELSE p
                ELSE raised = {} /\ positions'[i] = p]_vars

\* A scan met an open position whose loss is exactly the emergency threshold
\* (1.5%): it raised a critical event and left the position open.
C36_Witness ==
    /\ lastOp.op = "risk_scan"
    /\ \E i \in 1..Len(positions) :
          /\ positions[i].current_pnl * PctScale
                = -EmergencyThreshold * positions[i].position_size
          /\ positions[i].status = "open"
          /\ \E k \in 1..Len(events) :
                events[k] = Event("critical", i)

\* ------------------------------------------- database operation specification
\* One execute_query / execute_update / execute_insert call: the caller's
\* with-block and the generator behind get_connection, which contextlib
\* resumes once to enter the block and once to leave it.
MaxFaults == 3
max_retries == 3
RetryDelayMs == 100
DbOperations == {"execute_query", "execute_update", "execute_insert"}
\* What sqlite3 answers to cursor.execute or conn.commit.
DbAnswers == {"ok", "locked", "operational", "error"}
\* The answers of the database to the statement executions and commits of
\* one call, in order; once they are used up the database answers ok.
DbFaults ==
    UNION {[1..n -> DbAnswers] : n \in 0..MaxFaults}

DbCall(operation, faults) ==
    [pc |-> "connect", operation |-> operation, faults |-> faults,
     answered |-> 0, attempt |-> 0, yielded |-> FALSE, executed |-> 0,
     slept |-> 0, error |-> "", outcome |-> ""]

\* The answer to the next execute or commit of the call.
DbAnswer(call) ==
    IF call.answered < Len(call.faults)
    THEN call.faults[call.answered + 1] ELSE "ok"

InitDb ==
    /\ now = 0
    /\ funding_rates = <<>>
    /\ enable_trading = FALSE
    /\ schema = "extended"
    /\ positions = <<>>
    /\ orderLog = <<>>
    /\ events = <<>>
    /\ lastOp = Outcome("init", 0, FALSE)
    /\ config = DefaultConfig
    /\ pending_opportunities = <<>>
    /\ paused = FALSE
    /\ loop_pc = "top"
    /\ scan = NoScan
    /\ inflight = NoExecution
    /\ orderbook = NoBook
    /\ market_data = <<>>
    /\ opportunities = <<>>
    /\ config_table = EmptyConfig
    /\ config_cache = EmptyConfig
    /\ collector = IdleCollector
    /\ executing = NoCalls
    /\ market_prices = <<>>
    /\ db_call \in {DbCall(operation, faults) :
                       operation \in DbOperations, faults \in DbFaults}
    /\ components = NotStarted
    /\ loops = NoLoops

DbStepped(call) ==
    /\ db_call' = call
    /\ UNCHANGED <<setup, positions, orderLog, events, lastOp, admission,
                   scan, inflight, executing, lifecycle, market>>

\* The generator runs from the top of an attempt to "yield conn". The first
\* yield enters the with-block. A second one answers the throw() or next()
\* by which contextlib leaves the block, and contextlib raises RuntimeError
\* ("generator didn't stop") to the caller.
GetConnection(call) ==
    IF call.yielded
    THEN [call EXCEPT !.pc = "done", !.outcome = "RuntimeError"]
    ELSE [call EXCEPT !.pc = "statement", !.yielded = TRUE]

DbConnect ==
    /\ db_call.pc = "connect"
    /\ DbStepped(GetConnection(db_call))

\* The with-block: cursor.execute(query, params). An exception leaves the
\* block and is thrown into the generator at its yield; without one the
\* block returns and the generator is resumed at conn.commit().
CursorExecute(call, answer) ==
    [call EXCEPT !.answered = @ + 1,
                 !.executed = @ + 1,
                 !.pc = IF answer = "ok" THEN "commit" ELSE "except",
                 !.error = IF answer = "ok" THEN "" ELSE answer]

DbStatement ==
    /\ db_call.pc = "statement"
    /\ DbStepped(CursorExecute(db_call, DbAnswer(db_call)))

\* conn.commit() and, when it succeeds, break and the finally clause.
ConnCommit(call, answer) ==
    [call EXCEPT !.answered = @ + 1,
                 !.pc = IF answer = "ok" THEN "done" ELSE "except",
                 !.outcome = IF answer = "ok" THEN "returned" ELSE "",
                 !.error = IF answer = "ok" THEN "" ELSE answer]

DbCommit ==
    /\ db_call.pc = "commit"
    /\ DbStepped(ConnCommit(db_call, DbAnswer(db_call)))

\* The except clauses: "database is locked" before the last attempt rolls
\* back, closes, sleeps retry_delay * (attempt + 1) and continues the for
\* loop; anything else rolls back and re-raises.
HandleError(call) ==
    IF call.error = "locked" /\ call.attempt < max_retries - 1
    THEN [call EXCEPT !.slept = @ + RetryDelayMs * (call.attempt + 1),
                      !.attempt = @ + 1,
                      !.pc = "connect"]
    ELSE [call EXCEPT !.pc = "done",
                      !.outcome = IF call.error = "error" THEN "Exception"
                                  ELSE "OperationalError"]

DbExcept ==
    /\ db_call.pc = "except"
    /\ DbStepped(HandleError(db_call))

NextDb == DbConnect \/ DbStatement \/ DbCommit \/ DbExcept

SpecDb == InitDb /\ [][NextDb]_vars

\* C39: a database operation that meets "database is locked" is retried, its
\* statement executed again on each retry: when the database answers locked
\* fewer than 3 times and with no other error the operation returns normally,
\* having executed the statement once per attempt, and an operation that
\* ends with an error other than the lock error of its last attempt has met
\* an error that is not a lock.
C39_LockedOperationIsRetried ==
    db_call.pc = "done"
    => LET locks == {k \in 1..Len(db_call.faults) : db_call.faults[k] = "locked"}
           others == {k \in 1..Len(db_call.faults) :
                         db_call.faults[k] \in {"operational", "error"}}
       IN /\ db_call.executed = db_call.attempt + 1
          /\ (others = {} /\ Cardinality(locks) < max_retries)
                => db_call.outcome = "returned"
          /\ (db_call.outcome # "returned" /\ others = {})
                => /\ db_call.outcome = "OperationalError"
                   /\ db_call.attempt = max_retries - 1

\* ------------------------------------------------- start and stop of loops
\* main.py starts the four components in order and, on shutdown, calls
\* stop() on each in the same order; every loop thread runs
\* "while self.running: try: body; sleep except: sleep".
InitStop ==
    /\ now = 0
    /\ funding_rates = <<>>
    /\ enable_trading = FALSE
    /\ schema = "extended"
    /\ positions = <<>>
    /\ orderLog = <<>>
    /\ events = <<>>
    /\ lastOp = Outcome("init", 0, FALSE)
    /\ config = DefaultConfig
    /\ pending_opportunities = <<>>
    /\ paused = FALSE
    /\ loop_pc = "top"
    /\ scan = NoScan
    /\ inflight = NoExecution
    /\ orderbook = NoBook
    /\ market_data = <<>>
    /\ opportunities = <<>>
    /\ config_table = EmptyConfig
    /\ config_cache = EmptyConfig
    /\ collector = IdleCollector
    /\ executing = NoCalls
    /\ market_prices = <<>>
    /\ db_call = NoDbCall
    /\ components = NotStarted
    /\ loops = NoLoops

LifecycleStep ==
    UNCHANGED <<setup, positions, orderLog, events, lastOp, admission, scan, inflight, requests, market>>

\* Where a new thread begins: _position_sync_loop synchronises once before
\* its while loop, the other targets begin at the test of self.running.
EntryPoint(l) == IF l = "position_sync" THEN "initial_sync" ELSE "test"

\* start(): self.running = True, then one daemon thread per loop.
StartComponent(c) ==
    /\ ~components[c].started
    /\ \A d \in Components : ~components[d].stop_called
    /\ \A k \in 1..Len(ComponentOrder) :
          ComponentOrder[k] = c
             => \A j \in 1..(k - 1) : components[ComponentOrder[j]].started
    /\ components' = [components EXCEPT ![c].running = TRUE, ![c].started = TRUE]
    /\ loops' = [l \in Loops |->
                    IF l \in LoopsOf(c)
                    THEN [loops[l] EXCEPT !.pc = EntryPoint(l)]
                    ELSE loops[l]]
    /\ LifecycleStep

\* stop(): self.running = False.
StopComponent(c) ==
    /\ ~components[c].stop_called
    /\ \A k \in 1..Len(ComponentOrder) :
          ComponentOrder[k] = c
             => \A j \in 1..(k - 1) : components[ComponentOrder[j]].stop_called
    /\ components' = [components EXCEPT ![c].running = FALSE, ![c].stop_called = TRUE]
    /\ UNCHANGED loops
    /\ LifecycleStep

\* A loop that goes on while any component is running.
LoopRunsWhileAnyRuns(l) == \E c \in Components : components[c].running

\* The flag a loop's "while self.running" reads: its own component's.
LoopRuns(l) == components[ComponentOf(l)].running

\* The synchronisation _position_sync_loop performs before its loop.
InitialSync ==
    /\ loops["position_sync"].pc = "initial_sync"
    /\ loops' = [loops EXCEPT !["position_sync"].pc = "test"]
    /\ UNCHANGED components
    /\ LifecycleStep

\* "while self.running:": the thread begins an iteration or leaves the loop
\* and ends.
LoopTest(l) ==
    /\ loops[l].pc = "test"
    /\ loops' = [loops EXCEPT
                    ![l].pc = IF LoopRuns(l) THEN "body" ELSE "exited",
                    ![l].late = @ \/ (LoopRuns(l) /\ components[ComponentOf(l)].stop_called)]
    /\ UNCHANGED components
    /\ LifecycleStep

\* One iteration: the body and its sleep, a continue, or the except clause
\* and its sleep; each returns to the test.
LoopBody(l) ==
    /\ loops[l].pc = "body"
    /\ loops' = [loops EXCEPT ![l].pc = "test"]
    /\ UNCHANGED components
    /\ LifecycleStep

NextStop ==
    \/ \E c \in Components : StartComponent(c)
    \/ \E c \in Components : StopComponent(c)
    \/ InitialSync
    \/ \E l \in Loops : LoopTest(l)
    \/ \E l \in Loops : LoopBody(l)

SpecStop == InitStop /\ [][NextStop]_vars

\* Some loop thread takes a step.
LoopStep == InitialSync \/ \E l \in Loops : LoopTest(l) \/ LoopBody(l)
\* main.stop() goes on to the next component once it has begun.
StopNext ==
    /\ \E d \in Components : components[d].stop_called
    /\ \E c \in Components : StopComponent(c)

\* The loops are daemon threads the interpreter keeps scheduling, the
\* iteration in progress terminates, and main.stop() is straight-line code.
SpecStopFair == SpecStop /\ WF_vars(LoopStep) /\ WF_vars(StopNext)

\* C40: after stop() was called on a component none of its loops begins a
\* further iteration, and each of them exits once the iteration it was in
\* has finished.
C40_LoopsExitAfterStop ==
    /\ [](\A l \in Loops : ~loops[l].late)
    /\ \A l \in Loops :
          (components[ComponentOf(l)].stop_called /\ components[ComponentOf(l)].started)
             ~> (loops[l].pc = "exited")

\* stop() has been called on every component: it found the price collection
\* loop in the middle of an iteration begun before the call, which is still
\* in progress, while the funding rate loop and the executor's
\* synchronisation loop have left their loops.
C40_Witness ==
    /\ \A c \in Components : components[c].started /\ components[c].stop_called
    /\ loops["price_collection"].pc = "body"
    /\ ~loops["price_collection"].late
    /\ loops["funding_rate_collection"].pc = "exited"
    /\ loops["position_sync"].pc = "exited"

====
